---- MODULE Spec2Model ----
(***************************************************************************)
(* Model of the clipboard service of claudeboard                           *)
(* (src/src/services/clipboard.ts, whose factory builds one class per      *)
(* platform; the multi-strategy macOS class is the version of the same     *)
(* file carried in src/CHANGELOG.md, lines 274-462, modelled beside the    *)
(* single-command macOS class the factory builds).                         *)
(*                                                                         *)
(* One service instance, one call at a time.  A state is either settled    *)
(* (pc = "done") or has exactly one helper process in flight (pc names the *)
(* await the call is suspended at).  An action is the completion of that   *)
(* helper (the exec / fs callback, whose outcome the environment chooses)  *)
(* followed by the continuation of the async method up to its next await   *)
(* or its return.                                                          *)
(***************************************************************************)
EXTENDS Integers, Sequences, FiniteSets, TLC

\* ---------------------------------------------------------------- bounds

\* Number of distinct byte values in a payload: with two or more, "the same
\* bytes" is distinguishable from "some bytes".
MaxByte == 2

Bytes == 1..MaxByte

\* The most a helper may print before exec ends it with an error: no exec of
\* the service passes maxBuffer, so Node's default of 1024 * 1024 bytes
\* applies, here in the model's unit of length.
MaxBuffer == 1

\* A buffer longer than MaxBuffer.
LargeBuffer == [i \in 1..(MaxBuffer + 1) |-> 1]

\* Byte sequences (clipboard payload, process output, file content).  The
\* service tests a buffer's length against zero, exec tests the length of
\* what a helper printed against maxBuffer, and the content is passed on: the
\* empty buffer, the one-byte buffers and one buffer over the limit stand for
\* all.
Buffers == {<<>>} \cup {<<b>> : b \in Bytes} \cup {LargeBuffer}

NonEmptyBuffers == {b \in Buffers : Len(b) > 0}

\* ----------------------------------------------------------- environment

\* process.platform values for which createClipboardService returns a service.
Platforms == {"win32", "linux", "darwin"}

\* The service classes: the three createClipboardService builds, named by
\* their platform, and the multi-strategy MacOSClipboardService carried in
\* CHANGELOG.md, which no factory of the repository builds.
Services == Platforms \cup {"darwin-multi"}

\* The image representations a clipboard can expose.
Formats == {"png", "tiff", "jpeg"}

\* The OS clipboard: for each representation the bytes it offers (<<>>: the
\* representation is not on the clipboard).
Clips == [Formats -> Buffers]

EmptyClip == [f \in Formats |-> <<>>]

ClipHasImage(c) == \E f \in Formats : c[f] # <<>>

\* How one exec() of a helper ends.  "ok": exit status 0.  "exit1": the tool
\* ran and exited non-zero because the clipboard does not offer what was asked
\* for.  "enoent": the tool is missing or could not be spawned.  "timeout": the
\* process was killed when its timeout expired.  exec's callback receives an
\* error for every outcome but "ok".  A helper that prints image bytes has one
\* more outcome, "maxbuffer": it was ended because it printed more than
\* maxBuffer, which reaches the callback as an error too.
ExecOutcomes == {"ok", "exit1", "enoent", "timeout"}

\* Whether exec ends a helper that prints out for exceeding maxBuffer.
ExceedsMaxBuffer(out) == Len(out) > MaxBuffer

ExecError(outcome) == outcome # "ok"

\* "eio": a file read that failed.
InfraFailure(outcome) == outcome \in {"enoent", "timeout", "eio"}

\* A file on disk: absent, or present with a content.
Absent == [exists |-> FALSE, content |-> <<>>]

File(b) == [exists |-> TRUE, content |-> b]

Files == {Absent} \cup {File(b) : b \in Buffers}

\* ---------------------------------------------------------------- results

\* What a settled call gave its caller.
NoResult == [kind |-> "none", buffer |-> <<>>, format |-> ""]

Null == [kind |-> "null", buffer |-> <<>>, format |-> ""]

Rejected == [kind |-> "rejected", buffer |-> <<>>, format |-> ""]

Void == [kind |-> "void", buffer |-> <<>>, format |-> ""]

Bool(b) == [kind |-> IF b THEN "true" ELSE "false", buffer |-> <<>>, format |-> ""]

Image(b, f) == [kind |-> "image", buffer |-> b, format |-> f]

\* One helper invocation as the call saw it, with what the helper left on disk
\* and, where the call disposes of a temporary file once the helper has
\* ended, how that disposal went ("none": nothing is disposed of).
Entry(tool, arg, outcome, marker, out, wrote, sips) ==
    [tool |-> tool, arg |-> arg, outcome |-> outcome, marker |-> marker,
     out |-> out, wrote |-> wrote, sips |-> sips, disposal |-> "none"]

VARIABLES
    platform,   \* the service class in use, fixed when the service is created
    clip,       \* the OS clipboard
    op,         \* the method of the current (or last settled) call
    pc,         \* "done", or the await the current call is suspended at
    idx,        \* position in the call's command / format list
    log,        \* helper invocations completed by the current call, in order
    result,     \* what the last settled call returned
    tmpDir,     \* Windows: the mkdtemp directory of the call exists
    tmpFile,    \* the call's temporary artifact file
    infra,      \* some helper of this call was missing, unspawnable, timed out or (PowerShell) exited non-zero
    stable,     \* no other process changed the clipboard since this call began
    prev,       \* hasImage only: the hasImage call that settled just before this one
    raced,      \* another process changed the clipboard while this call was running
    calls,      \* overlapping getImage calls or uploads: each one's position, path and read
    dirs,       \* overlapping getImage calls: the mkdtemp directories that exist
    files,      \* overlapping getImage calls or uploads: the files they wrote that exist
    now,        \* file manager: Date.now()
    setting,    \* configuration: the value stored for imageUploader.retentionDays
    images,     \* file manager: the entries of the images directory
    fmPc,       \* file manager: "idle", "done", or the await cleanup is suspended at
    caller,     \* file manager: who called cleanupOldImages, "direct" or "upload",
                \* or "create" for a createImageFile call and "ensure" for
                \* an ensureDirectoryExists call
    retention,  \* file manager: the retentionDays argument of the current call
    before,     \* file manager: the images directory when the current call began
    fsFailed,   \* file manager: a file-system operation of the current call failed
    fmResult,   \* file manager: how the last call settled, "resolved" or "rejected"
    wrote,      \* file manager: the names the current call wrote, in order
    created,    \* file manager: the name of the file createImageFile returned
    undeleted,  \* file manager: the entries whose delete failed in the current call
    pending,    \* file manager: the entries whose delete was issued and has not settled
    elsewhere,  \* file manager: the workspace's files outside the images directory
    remoteName, \* upload command: vscode.env.remoteName ("" when unset)
    clearSetting, \* configuration: imageUploader.clearClipboardAfterUpload
    destination, \* upload command: the destination argument of the invocation
    upPc,       \* upload command: "idle", "returned", or the await it is suspended at
    steps,      \* upload command: the collaborator operations it started, in order
    notes,      \* upload command: the notifications shown, in order
    upResult,   \* upload command: what execute() returned
    imageData,  \* upload command: the image its getImage call returned
    imageFile,  \* upload command: the path of the file createImageFile returned
    inserted,   \* upload command: the path was put into the editor or the terminal
    stored,     \* upload command: the image files that exist because of it
    probe       \* probe and fetch: the hasImage call that settled just before the
                \* current getImage call

vars == <<platform, clip, op, pc, idx, log, result, tmpDir, tmpFile, infra, stable,
          prev, raced, calls, dirs, files,
          now, setting, images, fmPc, caller, retention, before, fsFailed,
          fmResult, wrote, created, undeleted, pending, elsewhere,
          remoteName, clearSetting, destination, upPc, steps, notes, upResult,
          imageData, imageFile, inserted, stored, probe>>

\* The variables of the other specifications of this module, which the steps
\* of the clipboard service leave alone.
overlapVars == <<calls, dirs, files>>

cleanupVars ==
    <<now, setting, images, fmPc, caller, retention, before, fsFailed,
      fmResult, wrote, created, undeleted, pending, elsewhere>>

uploadVars ==
    <<remoteName, clearSetting, destination, upPc, steps, notes, upResult,
      imageData, imageFile, inserted, stored>>

otherVars == <<overlapVars, cleanupVars, uploadVars, probe>>

Settled(o) == op = o /\ pc = "done"

\* The number of getImage calls that may overlap.
MaxCalls == 2

Slots == 1..MaxCalls

\* No temporary path chosen yet.
NoPath == <<0, 0>>

\* A call that has not been started.
IdleCall == [pc |-> "idle", path |-> NoPath, got |-> 0]

\* The file manager is not being observed.
CleanupIdle ==
    /\ now = 0
    /\ setting = [type |-> "undefined", twice |-> 0]
    /\ images = {}
    /\ fmPc = "idle"
    /\ caller = "none"
    /\ retention = 0
    /\ before = {}
    /\ fsFailed = FALSE
    /\ fmResult = "none"
    /\ wrote = <<>>
    /\ created = <<>>
    /\ undeleted = {}
    /\ pending = {}
    /\ elsewhere = {}

\* No overlapping calls are being observed.
OverlapIdle ==
    /\ calls = [s \in Slots |-> IdleCall]
    /\ dirs = {}
    /\ files = {}

\* execute() has not returned anything.
NoUpload == [success |-> FALSE, data |-> <<>>, message |-> <<>>, originalError |-> <<>>]

\* The upload command is not being observed.
UploadIdle ==
    /\ remoteName = ""
    /\ clearSetting = FALSE
    /\ destination = "none"
    /\ upPc = "idle"
    /\ steps = <<>>
    /\ notes = <<>>
    /\ upResult = NoUpload
    /\ imageData = NoResult
    /\ imageFile = <<>>
    /\ inserted = FALSE
    /\ stored = {}

\* Probes are not being observed.
NotObserved == [on |-> FALSE, result |-> NoResult, infra |-> FALSE, stable |-> FALSE]

\* Probes are observed, and the current call did not follow one.
NoProbe == [on |-> TRUE, result |-> NoResult, infra |-> FALSE, stable |-> FALSE]

ProbeIdle == probe = NotObserved

\* No hasImage call settled just before the current call.
NoPrev ==[op |-> "none", result |-> NoResult, infra |-> FALSE, stable |-> FALSE]

Init ==
    /\ platform \in Services
    /\ clip \in Clips
    /\ op = "none"
    /\ pc = "done"
    /\ idx = 0
    /\ log = <<>>
    /\ result = NoResult
    /\ tmpDir = FALSE
    /\ tmpFile = Absent
    /\ infra = FALSE
    /\ stable = TRUE
    /\ prev = NoPrev
    /\ raced = FALSE
    /\ OverlapIdle
    /\ ProbeIdle
    /\ UploadIdle
    /\ CleanupIdle

\* What another process puts on the clipboard: nothing, or one
\* representation of an image.
Copies ==
    {EmptyClip} \cup {[EmptyClip EXCEPT ![f] = b] : f \in Formats, b \in NonEmptyBuffers}

\* Another process replaces the clipboard content.
ClipboardChange ==
    /\ \E c \in Copies : c # clip /\ clip' = c
    /\ stable' = FALSE
    /\ raced' = (raced \/ pc # "done")
    /\ UNCHANGED <<platform, op, pc, idx, log, result, tmpDir, tmpFile, infra, prev,
                   otherVars>>

\* Entry of a call, up to its first await.
BeginCall(o, firstPc, dir) ==
    /\ pc = "done"
    /\ op' = o
    /\ pc' = firstPc
    /\ idx' = 1
    /\ log' = <<>>
    /\ result' = NoResult
    /\ tmpDir' = dir
    /\ tmpFile' = Absent
    /\ infra' = FALSE
    /\ stable' = TRUE
    /\ prev' = IF o = "hasImage" /\ op = "hasImage"
               THEN [op |-> op, result |-> result, infra |-> infra, stable |-> stable]
               ELSE NoPrev
    /\ raced' = FALSE
    /\ probe' = IF ~probe.on THEN probe
                ELSE IF o = "getImage" /\ op = "hasImage"
                THEN [on |-> TRUE, result |-> result, infra |-> infra, stable |-> stable]
                ELSE NoProbe

\* A call made on the service directly.
Begin(o, firstPc, dir) ==
    /\ BeginCall(o, firstPc, dir)
    /\ UNCHANGED <<platform, clip, overlapVars, cleanupVars, uploadVars>>

\* Return (or throw) of the call: its promise settles with r.  A callback that
\* neither resolves nor rejects (r = NoResult) leaves the promise pending.
Settle(r) ==
    /\ pc' = IF r = NoResult THEN "pending" ELSE "done"
    /\ result' = r

\* What a command leaves on the clipboard: one that clears it empties it when
\* it succeeds and may or may not have done so when it is killed on timeout;
\* any other command leaves the content alone.
CommandEffect(clears, outcome, c) ==
    CASE clears /\ outcome = "ok" -> {EmptyClip}
      [] clears /\ outcome = "timeout" -> {c, EmptyClip}
      [] OTHER -> {c}

\* ------------------------------------------------- ManagedTempFile (Windows)

\* createTempFile: a fresh mkdtemp directory and a file path inside it; the
\* file itself is not created.
createTempFile == [file |-> Absent, dir |-> TRUE]

\* How the file-system calls of one dispose() end: both work, unlinkSync
\* throws (the file is held open or protected), or rmdirSync throws (the
\* directory is not empty or protected).
DisposeOutcomes == {"ok", "unlinkThrows", "rmdirThrows"}

\* ManagedTempFile.dispose: unlink the file if it exists, then remove the
\* directory if it exists.  Both calls sit in one try block whose catch
\* swallows the error: a throwing unlinkSync leaves file and directory in
\* place, a throwing rmdirSync leaves the directory.
dispose(file, dir, outcome) ==
    IF file.exists /\ outcome = "unlinkThrows"
    THEN [file |-> file, dir |-> dir]
    ELSE [file |-> Absent,
          dir |-> IF dir /\ outcome = "rmdirThrows" THEN dir ELSE FALSE]

\* -------------------------------------------------- WindowsClipboardService

\* What one run of the image-saving PowerShell script can do, given the
\* clipboard: its exit, the marker it printed, and the file it left at the
\* path it was given.  Clipboard.ContainsImage() decides between 'no_image'
\* and an attempt to save; an exception inside the script's try block prints
\* 'error'; a run killed by the timeout may have started writing.
WindowsScriptRuns(c) ==
    {[outcome |-> "enoent", marker |-> "", wrote |-> Absent]}
    \cup {[outcome |-> "timeout", marker |-> "", wrote |-> f] :
            f \in IF ClipHasImage(c) THEN Files ELSE {Absent}}
    \cup {[outcome |-> "ok", marker |-> "no_image", wrote |-> Absent] :
            x \in IF ClipHasImage(c) THEN {} ELSE {0}}
    \cup {[outcome |-> "ok", marker |-> "success", wrote |-> f] :
            f \in IF ClipHasImage(c) THEN Files ELSE {}}
    \cup {[outcome |-> "ok", marker |-> "error", wrote |-> f] :
            f \in IF ClipHasImage(c) THEN {Absent, File(<<>>)} ELSE {Absent}}

\* stdout.trim().startsWith('success'), over the markers the script prints.
StartsWithSuccess(marker) == marker = "success"

\* Variant of executeClipboardCommand: an exec error resolves to false instead
\* of rejecting.
executeClipboardCommand_SwallowError(outcome, marker) ==
    IF ExecError(outcome) THEN "false"
    ELSE IF StartsWithSuccess(marker) THEN "true" ELSE "false"

\* Variant of executeClipboardCommand: the script's 'error' marker rejects too.
executeClipboardCommand_RejectOnErrorMarker(outcome, marker) ==
    IF ExecError(outcome) \/ marker = "error" THEN "reject"
    ELSE IF StartsWithSuccess(marker) THEN "true" ELSE "false"

\* executeClipboardCommand: rejects on an exec error, else resolves to whether
\* the script printed the success marker.
executeClipboardCommand(outcome, marker) ==
    IF ExecError(outcome) THEN "reject"
    ELSE IF StartsWithSuccess(marker) THEN "true" ELSE "false"

\* Variant of WindowsGetImageResult: no existsSync test, so reading an absent
\* file throws.
WindowsGetImageResult_NoExistsCheck(outcome, marker, file) ==
    LET hasImage == executeClipboardCommand(outcome, marker)
    IN  IF hasImage = "reject" THEN Rejected
        ELSE IF hasImage # "true" THEN Null
        ELSE IF ~file.exists THEN Rejected
        ELSE Image(file.content, "png")

\* The try block of getImage once the script has ended.
WindowsGetImageResult(outcome, marker, file) ==
    LET hasImage == executeClipboardCommand(outcome, marker)
    IN  IF hasImage = "reject" THEN Rejected
        ELSE IF hasImage # "true" \/ ~file.exists THEN Null
        ELSE Image(file.content, "png")

\* Variant of WindowsGetImageFinally: the temp file is disposed of on return
\* only, not when executeClipboardCommand rejected.
WindowsGetImageFinally_OnReturnOnly(r, file, dir, outcome) ==
    IF r = Rejected THEN [file |-> file, dir |-> dir] ELSE dispose(file, dir, outcome)

\* The finally block of getImage: it runs on return and on throw alike.
WindowsGetImageFinally(r, file, dir, outcome) == dispose(file, dir, outcome)

WindowsGetImageBegin ==
    /\ platform = "win32"
    /\ Begin("getImage", "powershell", createTempFile.dir)

WindowsGetImage ==
    /\ platform = "win32" /\ op = "getImage" /\ pc = "powershell"
    /\ \E run \in WindowsScriptRuns(clip), disposal \in DisposeOutcomes :
        LET r == WindowsGetImageResult(run.outcome, run.marker, run.wrote)
            d == WindowsGetImageFinally(r, run.wrote, tmpDir, disposal)
        IN  /\ log' = Append(log, [Entry("powershell", "save", run.outcome,
                                         run.marker, <<>>, run.wrote, "none")
                                       EXCEPT !.disposal = disposal])
            /\ infra' = (infra \/ InfraFailure(run.outcome))
            /\ tmpFile' = d.file
            /\ tmpDir' = d.dir
            /\ Settle(r)
    /\ UNCHANGED <<platform, clip, op, idx, stable, prev, raced,
                   otherVars>>

\* The marker printed by the detection script.
WindowsHasImageMarker(c) == IF ClipHasImage(c) THEN "true" ELSE "false"

\* Variant of WindowsHasImageResult: the callback returns on an error without
\* rejecting.
WindowsHasImageResult_NoReject(outcome, marker) ==
    IF ExecError(outcome) THEN NoResult ELSE Bool(marker = "true")

\* hasImage's callback: reject on error, else stdout.trim() === 'true'.
WindowsHasImageResult(outcome, marker) ==
    IF ExecError(outcome) THEN Rejected ELSE Bool(marker = "true")

WindowsHasImageBegin ==
    /\ platform = "win32"
    /\ Begin("hasImage", "powershell", FALSE)

\* The hasImage command settles.  Its script has no error exit of its own, so
\* a non-zero exit is a failure of PowerShell like a missing or timed-out one:
\* exec reports each of them as an error.
WindowsHasImage ==
    /\ platform = "win32" /\ op = "hasImage" /\ pc = "powershell"
    /\ \E outcome \in ExecOutcomes :
        LET marker == IF outcome = "ok" THEN WindowsHasImageMarker(clip) ELSE ""
        IN  /\ log' = Append(log, Entry("powershell", "contains", outcome,
                                        marker, <<>>, Absent, "none"))
            /\ infra' = (infra \/ ExecError(outcome))
            /\ Settle(WindowsHasImageResult(outcome, marker))
    /\ UNCHANGED <<platform, clip, op, idx, tmpDir, tmpFile, stable, prev, raced,
                   otherVars>>

\* clear's and warmUp's callbacks ignore their arguments.
WindowsBestEffortResult(outcome) == Void

WindowsClearBegin ==
    /\ platform = "win32"
    /\ Begin("clear", "powershell", FALSE)

WindowsClear ==
    /\ platform = "win32" /\ op = "clear" /\ pc = "powershell"
    /\ \E outcome \in ExecOutcomes :
        /\ log' = Append(log, Entry("powershell", "clear", outcome, "", <<>>,
                                    Absent, "none"))
        /\ infra' = (infra \/ InfraFailure(outcome))
        /\ clip' \in CommandEffect(TRUE, outcome, clip)
        /\ Settle(WindowsBestEffortResult(outcome))
    /\ UNCHANGED <<platform, op, idx, tmpDir, tmpFile, stable, prev, raced,
                   otherVars>>

WindowsWarmUpBegin ==
    /\ platform = "win32"
    /\ Begin("warmUp", "powershell", FALSE)

WindowsWarmUp ==
    /\ platform = "win32" /\ op = "warmUp" /\ pc = "powershell"
    /\ \E outcome \in ExecOutcomes :
        /\ log' = Append(log, Entry("powershell", "add-type", outcome, "", <<>>,
                                    Absent, "none"))
        /\ infra' = (infra \/ InfraFailure(outcome))
        /\ Settle(WindowsBestEffortResult(outcome))
    /\ UNCHANGED <<platform, clip, op, idx, tmpDir, tmpFile, stable, prev, raced,
                   otherVars>>

\* ---------------------------------------------------- reading the clipboard

\* What one run of a tool that prints representation f of the clipboard to
\* its standard output in binary mode can do: print the bytes the clipboard
\* offers (nothing when it offers none), be ended by exec because the bytes
\* exceed maxBuffer, exit non-zero because the representation is not offered,
\* be missing, or time out.
ReadRuns(c, f) ==
    {[outcome |-> IF ExceedsMaxBuffer(c[f]) THEN "maxbuffer" ELSE "ok",
      out |-> IF ExceedsMaxBuffer(c[f]) THEN <<>> ELSE c[f]]}
    \cup {[outcome |-> o, out |-> <<>>] :
            o \in {"enoent", "timeout"} \cup (IF c[f] = <<>> THEN {"exit1"} ELSE {})}

\* ---------------------------------------------------- LinuxClipboardService

\* Variant of LinuxGetImageCommands: xclip is tried a second time.
LinuxGetImageCommands_Retry == <<"xclip", "xclip">>

\* Variant of LinuxGetImageCommands: the Wayland tool first.
LinuxGetImageCommands_WaylandFirst == <<"wl-paste", "xclip">>

\* getImage's command list: xclip (X11), then wl-paste (Wayland), both asked
\* for image/png.
LinuxGetImageCommands == <<"xclip", "wl-paste">>

\* Variant of LinuxGetImageStep: the error of a command is not caught.
LinuxGetImageStep_Uncaught(i, outcome, out) ==
    IF ExecError(outcome) THEN [done |-> TRUE, result |-> Rejected]
    ELSE IF Len(out) > 0 THEN [done |-> TRUE, result |-> Image(out, "png")]
    ELSE IF i < 2 THEN [done |-> FALSE, result |-> NoResult]
    ELSE [done |-> TRUE, result |-> Null]

\* One iteration of getImage's loop, once command i has ended: return the
\* output when the command succeeded with non-empty output, else go on to the
\* next command, and return null after the last one.
LinuxGetImageStep(i, outcome, out) ==
    IF ~ExecError(outcome) /\ Len(out) > 0
    THEN [done |-> TRUE, result |-> Image(out, "png")]
    ELSE IF i < Len(LinuxGetImageCommands)
         THEN [done |-> FALSE, result |-> NoResult]
         ELSE [done |-> TRUE, result |-> Null]

LinuxGetImageBegin ==
    /\ platform = "linux"
    /\ Begin("getImage", "exec", FALSE)

LinuxGetImage ==
    /\ platform = "linux" /\ op = "getImage" /\ pc = "exec"
    /\ \E run \in ReadRuns(clip, "png") :
        LET s == LinuxGetImageStep(idx, run.outcome, run.out)
        IN  /\ log' = Append(log, Entry(LinuxGetImageCommands[idx], "image/png",
                                        run.outcome, "", run.out, Absent, "none"))
            /\ infra' = (infra \/ InfraFailure(run.outcome))
            /\ IF s.done
               THEN Settle(s.result) /\ idx' = idx
               ELSE pc' = pc /\ result' = result /\ idx' = idx + 1
    /\ UNCHANGED <<platform, clip, op, tmpDir, tmpFile, stable, prev, raced,
                   otherVars>>

\* The MIME type a clipboard tool lists for a representation.
MimeType(f) ==
    CASE f = "png" -> "image/png"
      [] f = "tiff" -> "image/tiff"
      [] f = "jpeg" -> "image/jpeg"

\* The type list the clipboard offers, one line per representation it holds.
ClipTypes(c) ==
    LET held == SelectSeq(<<"png", "tiff", "jpeg">>, LAMBDA f : c[f] # <<>>)
    IN  [i \in 1..Len(held) |-> MimeType(held[i])]

\* What one run of a tool that lists the clipboard's types can do: print the
\* list, exit non-zero because the clipboard holds nothing, be missing, or
\* time out.
TypesRuns(c) ==
    {[outcome |-> "ok", out |-> ClipTypes(c)]}
    \cup {[outcome |-> o, out |-> <<>>] :
            o \in {"enoent", "timeout"} \cup (IF ClipHasImage(c) THEN {} ELSE {"exit1"})}

\* String.prototype.includes on a listing, one listed item per line.
Includes(out, item) == \E i \in 1..Len(out) : out[i] = item

\* Variant of LinuxHasImageCommands: the Wayland tool first.
LinuxHasImageCommands_WaylandFirst == <<"wl-paste", "xclip">>

\* hasImage's command list: xclip asked for TARGETS, then wl-paste --list-types.
LinuxHasImageCommands == <<"xclip", "wl-paste">>

\* Variant of LinuxHasImageStep: the error of a command is not caught.
LinuxHasImageStep_Uncaught(i, outcome, out) ==
    IF ExecError(outcome) THEN [done |-> TRUE, result |-> Rejected]
    ELSE [done |-> TRUE,
          result |-> Bool(Includes(out, "image/png") \/ Includes(out, "image/jpeg"))]

\* Variant of LinuxHasImageStep: true is returned after the last command failed.
LinuxHasImageStep_DefaultTrue(i, outcome, out) ==
    IF ~ExecError(outcome)
    THEN [done |-> TRUE,
          result |-> Bool(Includes(out, "image/png") \/ Includes(out, "image/jpeg"))]
    ELSE IF i < 2 THEN [done |-> FALSE, result |-> NoResult]
         ELSE [done |-> TRUE, result |-> Bool(TRUE)]

\* One iteration of hasImage's loop, once command i has ended: the first
\* command that does not fail decides, by whether its listing includes
\* image/png or image/jpeg; false is returned after the last command failed.
LinuxHasImageStep(i, outcome, out) ==
    IF ~ExecError(outcome)
    THEN [done |-> TRUE,
          result |-> Bool(Includes(out, "image/png") \/ Includes(out, "image/jpeg"))]
    ELSE IF i < Len(LinuxHasImageCommands)
         THEN [done |-> FALSE, result |-> NoResult]
         ELSE [done |-> TRUE, result |-> Bool(FALSE)]

LinuxHasImageBegin ==
    /\ platform = "linux"
    /\ Begin("hasImage", "exec", FALSE)

LinuxHasImage ==
    /\ platform = "linux" /\ op = "hasImage" /\ pc = "exec"
    /\ \E run \in TypesRuns(clip) :
        LET s == LinuxHasImageStep(idx, run.outcome, run.out)
        IN  /\ log' = Append(log, Entry(LinuxHasImageCommands[idx], "types",
                                        run.outcome, "", run.out, Absent, "none"))
            /\ infra' = (infra \/ InfraFailure(run.outcome))
            /\ IF s.done
               THEN Settle(s.result) /\ idx' = idx
               ELSE pc' = pc /\ result' = result /\ idx' = idx + 1
    /\ UNCHANGED <<platform, clip, op, tmpDir, tmpFile, stable, prev, raced,
                   otherVars>>

\* clear's command list: xclip fed /dev/null, then wl-copy --clear.
LinuxClearCommands ==
    <<[tool |-> "xclip", arg |-> "/dev/null", clears |-> TRUE],
      [tool |-> "wl-copy", arg |-> "--clear", clears |-> TRUE]>>

\* Variant of LinuxWarmUpCommands: warming up runs the clearing commands.
LinuxWarmUpCommands_Clearing ==
    <<[tool |-> "xclip", arg |-> "/dev/null", clears |-> TRUE],
      [tool |-> "wl-copy", arg |-> "--clear", clears |-> TRUE]>>

\* warmUp's command list: xclip -version, then wl-paste --version.
LinuxWarmUpCommands ==
    <<[tool |-> "xclip", arg |-> "-version", clears |-> FALSE],
      [tool |-> "wl-paste", arg |-> "--version", clears |-> FALSE]>>

\* Variant of LinuxBestEffortStep: the failure of the last command is thrown.
LinuxBestEffortStep_ThrowLast(n, i, outcome) ==
    IF ~ExecError(outcome) THEN [done |-> TRUE, result |-> Void]
    ELSE IF i < n THEN [done |-> FALSE, result |-> NoResult]
         ELSE [done |-> TRUE, result |-> Rejected]

\* One iteration of clear's or warmUp's loop over n commands, once command i
\* has ended: return at the first command that succeeds, ignore a failure and
\* go on, and return normally after the last command.
LinuxBestEffortStep(n, i, outcome) ==
    IF ~ExecError(outcome) THEN [done |-> TRUE, result |-> Void]
    ELSE IF i < n THEN [done |-> FALSE, result |-> NoResult]
         ELSE [done |-> TRUE, result |-> Void]

\* The loop body shared by clear and warmUp.
LinuxBestEffort(commands) ==
    /\ platform = "linux" /\ pc = "exec"
    /\ \E outcome \in ExecOutcomes :
        LET s == LinuxBestEffortStep(Len(commands), idx, outcome)
        IN  /\ log' = Append(log, Entry(commands[idx].tool, commands[idx].arg,
                                        outcome, "", <<>>, Absent, "none"))
            /\ infra' = (infra \/ InfraFailure(outcome))
            /\ clip' \in CommandEffect(commands[idx].clears, outcome, clip)
            /\ IF s.done
               THEN Settle(s.result) /\ idx' = idx
               ELSE pc' = pc /\ result' = result /\ idx' = idx + 1
    /\ UNCHANGED <<platform, op, tmpDir, tmpFile, stable, prev, raced,
                   otherVars>>

LinuxClearBegin ==
    /\ platform = "linux"
    /\ Begin("clear", "exec", FALSE)

LinuxClear == op = "clear" /\ LinuxBestEffort(LinuxClearCommands)

LinuxWarmUpBegin ==
    /\ platform = "linux"
    /\ Begin("warmUp", "exec", FALSE)

LinuxWarmUp == op = "warmUp" /\ LinuxBestEffort(LinuxWarmUpCommands)

\* ------------------------------------- MacOSClipboardService (CHANGELOG.md)

\* Variant of MacFormats: TIFF is asked for before PNG.
MacFormats_TiffFirst ==
    <<[uti |-> "public.tiff", format |-> "tiff"],
      [uti |-> "public.png", format |-> "png"],
      [uti |-> "public.jpeg", format |-> "jpeg"]>>

\* The fallback's list of type identifiers and the format each is tagged with.
MacFormats ==
    <<[uti |-> "public.png", format |-> "png"],
      [uti |-> "public.tiff", format |-> "tiff"],
      [uti |-> "public.jpeg", format |-> "jpeg"]>>

\* The AppleScript of getImageViaAppleScript, run to its end: write the
\* clipboard's PNG data to the temp file and return its path; failing that,
\* write the TIFF data, convert the file in place with sips and return its
\* path; any error in the second attempt returns the ERROR: marker.
AppleScript(c, sipsOk, converted) ==
    IF c["png"] # <<>>
    THEN [marker |-> "path", wrote |-> File(c["png"]), sips |-> "none"]
    ELSE IF c["tiff"] # <<>>
         THEN IF sipsOk
              THEN [marker |-> "path", wrote |-> File(converted), sips |-> "ok"]
              ELSE [marker |-> "ERROR:", wrote |-> File(c["tiff"]), sips |-> "failed"]
         ELSE [marker |-> "ERROR:", wrote |-> Absent, sips |-> "none"]

\* What one run of osascript on that script can do: the scripting host is
\* missing, it is killed by the timeout (before or after the script wrote the
\* file), or the script runs to its end with exit status 0.
AppleScriptRuns(c) ==
    {[outcome |-> "enoent", marker |-> "", wrote |-> Absent, sips |-> "none"]}
    \cup {[outcome |-> "timeout", marker |-> "", wrote |-> f, sips |-> "none"] :
            f \in {Absent} \cup {AppleScript(c, FALSE, <<>>).wrote}}
    \cup {[outcome |-> "ok", marker |-> a.marker, wrote |-> a.wrote, sips |-> a.sips] :
            a \in {AppleScript(c, ok, b) : ok \in BOOLEAN, b \in NonEmptyBuffers}}

\* output.startsWith('ERROR:'), over the two things the script returns.
StartsWithError(marker) == marker = "ERROR:"

\* Variant of AppleScriptOutput: only the exit status is looked at.
AppleScriptOutput_ExitStatusOnly(outcome, marker) ==
    IF ExecError(outcome) THEN "throw" ELSE "read"

\* getImageViaAppleScript after executeAppleScript: a rejected exec and the
\* ERROR: marker both throw; otherwise the output is the path to read.
AppleScriptOutput(outcome, marker) ==
    IF ExecError(outcome) THEN "throw"
    ELSE IF StartsWithError(marker) THEN "throw"
    ELSE "read"

\* getImageViaAppleScript's read of the temp file: on success its bytes are
\* held and the unlink is awaited next; a failed read throws and unlinks
\* nothing.
ReadTempFile(readOk, file) ==
    IF readOk
    THEN [thrown |-> FALSE, buffer |-> file.content, file |-> file]
    ELSE [thrown |-> TRUE, buffer |-> <<>>, file |-> file]

\* getImageViaAppleScript's unlink of the temp file, awaited after the read:
\* on success the file is gone and the bytes read are returned; a failed
\* unlink throws inside the same try block, the bytes are dropped and the
\* file stays.
UnlinkTempFile(unlinkOk, buffer, file) ==
    IF unlinkOk
    THEN [thrown |-> FALSE, buffer |-> buffer, file |-> Absent]
    ELSE [thrown |-> TRUE, buffer |-> <<>>, file |-> file]

\* getImage's strategy 1 check: a non-empty buffer is returned as png.
MacPrimaryResult(thrown, buffer) ==
    IF ~thrown /\ Len(buffer) > 0
    THEN [done |-> TRUE, result |-> Image(buffer, "png")]
    ELSE [done |-> FALSE, result |-> NoResult]

\* One iteration of getImage's strategy 2 loop, once pbpaste for format i has
\* ended.
MacPbpasteStep(i, outcome, out) ==
    IF ~ExecError(outcome) /\ Len(out) > 0
    THEN [done |-> TRUE, result |-> Image(out, MacFormats[i].format)]
    ELSE IF i < Len(MacFormats)
         THEN [done |-> FALSE, result |-> NoResult]
         ELSE [done |-> TRUE, result |-> Null]

MacGetImageBegin ==
    /\ platform = "darwin-multi"
    /\ Begin("getImage", "osascript", FALSE)

MacGetImageAppleScript ==
    /\ platform = "darwin-multi" /\ op = "getImage" /\ pc = "osascript"
    /\ \E run \in AppleScriptRuns(clip) :
        /\ log' = Append(log, Entry("osascript", "script", run.outcome, run.marker,
                                    <<>>, run.wrote, run.sips))
        /\ infra' = (infra \/ InfraFailure(run.outcome))
        /\ tmpFile' = run.wrote
        /\ pc' = IF AppleScriptOutput(run.outcome, run.marker) = "throw"
                 THEN "pbpaste" ELSE "readFile"
    /\ UNCHANGED <<platform, clip, op, idx, result, tmpDir, stable, prev, raced,
                   otherVars>>

MacGetImageReadFile ==
    /\ platform = "darwin-multi" /\ op = "getImage" /\ pc = "readFile"
    /\ \E readOk \in BOOLEAN :
        /\ readOk => tmpFile.exists
        /\ LET rd == ReadTempFile(readOk, tmpFile)
           IN  /\ log' = Append(log, Entry("readFile", "path",
                                           IF readOk THEN "ok" ELSE "eio", "",
                                           rd.buffer, tmpFile, "none"))
               /\ infra' = (infra \/ InfraFailure(IF readOk THEN "ok" ELSE "eio"))
               /\ tmpFile' = rd.file
               /\ pc' = IF rd.thrown THEN "pbpaste" ELSE "unlink"
    /\ UNCHANGED <<platform, clip, op, idx, result, tmpDir, stable, prev, raced,
                   otherVars>>

\* The unlink settles; the bytes the read gave are those of the last log
\* entry.
MacGetImageUnlink ==
    /\ platform = "darwin-multi" /\ op = "getImage" /\ pc = "unlink"
    /\ \E unlinkOk \in BOOLEAN :
        /\ unlinkOk => tmpFile.exists
        /\ LET ul == UnlinkTempFile(unlinkOk, log[Len(log)].out, tmpFile)
               s == MacPrimaryResult(ul.thrown, ul.buffer)
           IN  /\ log' = Append(log, Entry("unlink", "path",
                                           IF unlinkOk THEN "ok" ELSE "eio", "",
                                           <<>>, tmpFile, "none"))
               /\ infra' = (infra \/ InfraFailure(IF unlinkOk THEN "ok" ELSE "eio"))
               /\ tmpFile' = ul.file
               /\ IF s.done
                  THEN Settle(s.result)
                  ELSE pc' = "pbpaste" /\ result' = result
    /\ UNCHANGED <<platform, clip, op, idx, tmpDir, stable, prev, raced,
                   otherVars>>

MacGetImagePbpaste ==
    /\ platform = "darwin-multi" /\ op = "getImage" /\ pc = "pbpaste"
    /\ \E run \in ReadRuns(clip, MacFormats[idx].format) :
        LET s == MacPbpasteStep(idx, run.outcome, run.out)
        IN  /\ log' = Append(log, Entry("pbpaste", MacFormats[idx].uti, run.outcome,
                                        "", run.out, Absent, "none"))
            /\ infra' = (infra \/ InfraFailure(run.outcome))
            /\ IF s.done
               THEN Settle(s.result) /\ idx' = idx
               ELSE pc' = pc /\ result' = result /\ idx' = idx + 1
    /\ UNCHANGED <<platform, clip, op, tmpDir, tmpFile, stable, prev, raced,
                   otherVars>>

\* The class keyword "clipboard info" prints for a representation.
InfoClass(f) ==
    CASE f = "png" -> "PNGf"
      [] f = "tiff" -> "TIFF"
      [] f = "jpeg" -> "JPEG"

\* The listing "clipboard info" prints, one item per representation held.
ClipInfo(c) ==
    LET held == SelectSeq(<<"png", "tiff", "jpeg">>, LAMBDA f : c[f] # <<>>)
    IN  [i \in 1..Len(held) |-> InfoClass(held[i])]

\* hasImage's script: "true" when the clipboard's classes contain PNGf, TIFF
\* or JPEG, else "false".
MacHasImageMarker(c) ==
    IF c["png"] # <<>> \/ c["tiff"] # <<>> \/ c["jpeg"] # <<>> THEN "true" ELSE "false"

\* What one run of hasImage's script can do: print its answer, fail in the
\* script, be missing, or time out.
ClassCheckRuns(c) ==
    {[outcome |-> "ok", marker |-> MacHasImageMarker(c)]}
    \cup {[outcome |-> o, marker |-> ""] : o \in {"exit1", "enoent", "timeout"}}

\* What one run of osascript -e "clipboard info" can do.
InfoRuns(c) ==
    {[outcome |-> "ok", out |-> ClipInfo(c)]}
    \cup {[outcome |-> o, out |-> <<>>] : o \in {"enoent", "timeout"}}

\* Variant of MacHasImagePrimary: a failed script answers false at once.
MacHasImagePrimary_NoFallback(outcome, marker) ==
    IF ExecError(outcome) THEN [done |-> TRUE, result |-> Bool(FALSE)]
    ELSE [done |-> TRUE, result |-> Bool(marker = "true")]

\* hasImage's try block: the script's trimmed output compared with 'true';
\* a failed script is caught and leads to the fallback.
MacHasImagePrimary(outcome, marker) ==
    IF ExecError(outcome) THEN [done |-> FALSE, result |-> NoResult]
    ELSE [done |-> TRUE, result |-> Bool(marker = "true")]

\* Variant of MacHasImageFallback: the fallback's own failure is thrown.
MacHasImageFallback_Uncaught(outcome, out) ==
    IF ExecError(outcome) THEN Rejected
    ELSE Bool(\/ Includes(out, "image") \/ Includes(out, "PNGf")
              \/ Includes(out, "TIFF") \/ Includes(out, "JPEG"))

\* hasImage's fallback: whether the listing includes image, PNGf, TIFF or
\* JPEG; false when the listing command fails.
MacHasImageFallback(outcome, out) ==
    IF ExecError(outcome) THEN Bool(FALSE)
    ELSE Bool(\/ Includes(out, "image") \/ Includes(out, "PNGf")
              \/ Includes(out, "TIFF") \/ Includes(out, "JPEG"))

MacHasImageBegin ==
    /\ platform = "darwin-multi"
    /\ Begin("hasImage", "osascript", FALSE)

MacHasImageAppleScript ==
    /\ platform = "darwin-multi" /\ op = "hasImage" /\ pc = "osascript"
    /\ \E run \in ClassCheckRuns(clip) :
        LET s == MacHasImagePrimary(run.outcome, run.marker)
        IN  /\ log' = Append(log, Entry("osascript", "classes", run.outcome,
                                        run.marker, <<>>, Absent, "none"))
            /\ infra' = (infra \/ InfraFailure(run.outcome))
            /\ IF s.done
               THEN Settle(s.result)
               ELSE pc' = "info" /\ result' = result
    /\ UNCHANGED <<platform, clip, op, idx, tmpDir, tmpFile, stable, prev, raced,
                   otherVars>>

MacHasImageInfo ==
    /\ platform = "darwin-multi" /\ op = "hasImage" /\ pc = "info"
    /\ \E run \in InfoRuns(clip) :
        /\ log' = Append(log, Entry("osascript", "clipboard info", run.outcome,
                                    "", run.out, Absent, "none"))
        /\ infra' = (infra \/ InfraFailure(run.outcome))
        /\ Settle(MacHasImageFallback(run.outcome, run.out))
    /\ UNCHANGED <<platform, clip, op, idx, tmpDir, tmpFile, stable, prev, raced,
                   otherVars>>

\* clear's callback resolves whatever pbcopy did.
MacClearResult(outcome) == Void

MacClearBegin ==
    /\ platform = "darwin-multi"
    /\ Begin("clear", "pbcopy", FALSE)

MacClear ==
    /\ platform = "darwin-multi" /\ op = "clear" /\ pc = "pbcopy"
    /\ \E outcome \in ExecOutcomes :
        /\ log' = Append(log, Entry("pbcopy", "/dev/null", outcome, "", <<>>,
                                    Absent, "none"))
        /\ infra' = (infra \/ InfraFailure(outcome))
        /\ clip' \in CommandEffect(TRUE, outcome, clip)
        /\ Settle(MacClearResult(outcome))
    /\ UNCHANGED <<platform, op, idx, tmpDir, tmpFile, stable, prev, raced,
                   otherVars>>

\* warmUp catches the failure of its command.
MacWarmUpResult(outcome) == Void

MacWarmUpBegin ==
    /\ platform = "darwin-multi"
    /\ Begin("warmUp", "info", FALSE)

MacWarmUp ==
    /\ platform = "darwin-multi" /\ op = "warmUp" /\ pc = "info"
    /\ \E run \in InfoRuns(clip) :
        /\ log' = Append(log, Entry("osascript", "clipboard info", run.outcome,
                                    "", run.out, Absent, "none"))
        /\ infra' = (infra \/ InfraFailure(run.outcome))
        /\ clip' \in CommandEffect(FALSE, run.outcome, clip)
        /\ Settle(MacWarmUpResult(run.outcome))
    /\ UNCHANGED <<platform, op, idx, tmpDir, tmpFile, stable, prev, raced,
                   otherVars>>

\* ------------------------------ MacOSClipboardService (clipboard.ts factory)

\* getImage: the output of pbpaste -Prefer png is returned as png when the
\* command succeeded with non-empty output; a failed command is caught and,
\* like empty output, ends in null.
MacOSGetImageResult(outcome, out) ==
    IF ~ExecError(outcome) /\ Len(out) > 0 THEN Image(out, "png") ELSE Null

\* hasImage: whether pbpaste -Prefer public.png printed anything; false when
\* the command failed.
MacOSHasImageResult(outcome, out) ==
    IF ExecError(outcome) THEN Bool(FALSE) ELSE Bool(Len(out) > 0)

MacOSGetImageBegin ==
    /\ platform = "darwin"
    /\ Begin("getImage", "pbpaste", FALSE)

MacOSGetImage ==
    /\ platform = "darwin" /\ op = "getImage" /\ pc = "pbpaste"
    /\ \E run \in ReadRuns(clip, "png") :
        /\ log' = Append(log, Entry("pbpaste", "png", run.outcome, "", run.out,
                                    Absent, "none"))
        /\ infra' = (infra \/ InfraFailure(run.outcome))
        /\ Settle(MacOSGetImageResult(run.outcome, run.out))
    /\ UNCHANGED <<platform, clip, op, idx, tmpDir, tmpFile, stable, prev, raced,
                   otherVars>>

MacOSHasImageBegin ==
    /\ platform = "darwin"
    /\ Begin("hasImage", "pbpaste", FALSE)

MacOSHasImage ==
    /\ platform = "darwin" /\ op = "hasImage" /\ pc = "pbpaste"
    /\ \E run \in ReadRuns(clip, "png") :
        /\ log' = Append(log, Entry("pbpaste", "public.png", run.outcome, "",
                                    run.out, Absent, "none"))
        /\ infra' = (infra \/ InfraFailure(run.outcome))
        /\ Settle(MacOSHasImageResult(run.outcome, run.out))
    /\ UNCHANGED <<platform, clip, op, idx, tmpDir, tmpFile, stable, prev, raced,
                   otherVars>>

MacOSClearBegin ==
    /\ platform = "darwin"
    /\ Begin("clear", "pbcopy", FALSE)

\* clear's callback resolves whatever pbcopy did.
MacOSClear ==
    /\ platform = "darwin" /\ op = "clear" /\ pc = "pbcopy"
    /\ \E outcome \in ExecOutcomes :
        /\ log' = Append(log, Entry("pbcopy", "/dev/null", outcome, "", <<>>,
                                    Absent, "none"))
        /\ infra' = (infra \/ InfraFailure(outcome))
        /\ clip' \in CommandEffect(TRUE, outcome, clip)
        /\ Settle(Void)
    /\ UNCHANGED <<platform, op, idx, tmpDir, tmpFile, stable, prev, raced,
                   otherVars>>

MacOSWarmUpBegin ==
    /\ platform = "darwin"
    /\ Begin("warmUp", "pbpaste", FALSE)

\* warmUp catches the failure of pbpaste -Prefer txt.
MacOSWarmUp ==
    /\ platform = "darwin" /\ op = "warmUp" /\ pc = "pbpaste"
    /\ \E outcome \in ExecOutcomes :
        /\ log' = Append(log, Entry("pbpaste", "txt", outcome, "", <<>>,
                                    Absent, "none"))
        /\ infra' = (infra \/ InfraFailure(outcome))
        /\ clip' \in CommandEffect(FALSE, outcome, clip)
        /\ Settle(Void)
    /\ UNCHANGED <<platform, op, idx, tmpDir, tmpFile, stable, prev, raced,
                   otherVars>>

\* ------------------------------------------------------------ specification

Next ==
    \/ ClipboardChange
    \/ WindowsGetImageBegin
    \/ WindowsGetImage
    \/ WindowsHasImageBegin
    \/ WindowsHasImage
    \/ WindowsClearBegin
    \/ WindowsClear
    \/ WindowsWarmUpBegin
    \/ WindowsWarmUp
    \/ LinuxGetImageBegin
    \/ LinuxGetImage
    \/ LinuxHasImageBegin
    \/ LinuxHasImage
    \/ LinuxClearBegin
    \/ LinuxClear
    \/ LinuxWarmUpBegin
    \/ LinuxWarmUp
    \/ MacGetImageBegin
    \/ MacGetImageAppleScript
    \/ MacGetImageReadFile
    \/ MacGetImageUnlink
    \/ MacGetImagePbpaste
    \/ MacHasImageBegin
    \/ MacHasImageAppleScript
    \/ MacHasImageInfo
    \/ MacClearBegin
    \/ MacClear
    \/ MacWarmUpBegin
    \/ MacWarmUp
    \/ MacOSGetImageBegin
    \/ MacOSGetImage
    \/ MacOSHasImageBegin
    \/ MacOSHasImage
    \/ MacOSClearBegin
    \/ MacOSClear
    \/ MacOSWarmUpBegin
    \/ MacOSWarmUp

Spec == Init /\ [][Next]_vars

\* The steps that end an await of the running call: a helper process exits or
\* is killed when its timeout expires, or the read of the temporary file ends.
HelperSettles ==
    \/ WindowsGetImage \/ WindowsHasImage \/ WindowsClear \/ WindowsWarmUp
    \/ LinuxGetImage \/ LinuxHasImage \/ LinuxClear \/ LinuxWarmUp
    \/ MacGetImageAppleScript \/ MacGetImageReadFile \/ MacGetImageUnlink
    \/ MacGetImagePbpaste
    \/ MacHasImageAppleScript \/ MacHasImageInfo \/ MacClear \/ MacWarmUp
    \/ MacOSGetImage \/ MacOSHasImage \/ MacOSClear \/ MacOSWarmUp

\* The service under the assumption that every helper process ends: each exec
\* carries a timeout after which the process is killed and the callback runs.
FairSpec == Init /\ [][Next]_vars /\ WF_vars(HelperSettles)

\* ---------------------------------------------------------- probe and fetch
\* hasImage and getImage calls of one service, one after another in any order,
\* with the probe that precedes a fetch remembered.

ProbeFetchInit ==
    /\ platform \in Services
    /\ clip \in Clips
    /\ op = "none" /\ pc = "done" /\ idx = 0 /\ log = <<>> /\ result = NoResult
    /\ tmpDir = FALSE /\ tmpFile = Absent /\ infra = FALSE /\ stable = TRUE
    /\ prev = NoPrev /\ raced = FALSE
    /\ OverlapIdle
    /\ CleanupIdle
    /\ UploadIdle
    /\ probe = NoProbe

ProbeFetchNext ==
    \/ ClipboardChange
    \/ WindowsGetImageBegin
    \/ WindowsGetImage
    \/ WindowsHasImageBegin
    \/ WindowsHasImage
    \/ LinuxGetImageBegin
    \/ LinuxGetImage
    \/ LinuxHasImageBegin
    \/ LinuxHasImage
    \/ MacGetImageBegin
    \/ MacGetImageAppleScript
    \/ MacGetImageReadFile
    \/ MacGetImageUnlink
    \/ MacGetImagePbpaste
    \/ MacHasImageBegin
    \/ MacHasImageAppleScript
    \/ MacHasImageInfo
    \/ MacOSGetImageBegin
    \/ MacOSGetImage
    \/ MacOSHasImageBegin
    \/ MacOSHasImage

ProbeFetchSpec == ProbeFetchInit /\ [][ProbeFetchNext]_vars

\* ------------------------------------------- overlapping getImage() calls

\* Two or more getImage() calls of one service that overlap in time, on the
\* platforms whose getImage goes through a temporary file.  The clipboard
\* holds a PNG image throughout; each call is followed from the choice of its
\* temporary path to the read and removal of the file.

serviceVars ==
    <<platform, clip, op, pc, idx, log, result, tmpDir, tmpFile, infra, stable,
      prev, raced, probe>>

\* dispose is best effort: a directory whose rmdirSync (or whose file's
\* unlinkSync) threw stays on disk after its call.  The number of directories
\* left behind this way is capped.
MaxLeaked == 2

\* The names mkdtemp can give a directory: one for every call in flight and
\* one for every directory left behind, so a call that begins always finds a
\* name that is not on disk.
TempDirNames == 1..(MaxCalls + MaxLeaked)

\* The values of crypto.randomBytes(8), reduced to a few.
MaxSuffix == 2

Suffixes == 1..MaxSuffix

\* The script's "random number from 1000 to 9999", reduced to the first few
\* values of that range.
RandomLow == 1000

RandomSpan == 1

RandomNumbers == RandomLow..(RandomLow + RandomSpan)

\* The temporary-items folder shared by every run of the script.
TemporaryItems == 0

\* The file at path p, as a set of at most one element.
FileAt(p) == {f \in files : f.path = p}

\* Windows createTempFile: mkdtempSync makes a directory that did not exist,
\* and the file name inside it carries a random suffix.
OverlapCreateTempFile(d, suffix) == <<d, suffix>>

\* macOS: the script's temporary file name.
MacTempPath(n) == <<TemporaryItems, n>>

OverlapInit ==
    /\ platform \in {"win32", "darwin-multi"}
    /\ clip \in {c \in Clips : c["png"] # <<>>}
    /\ op = "none" /\ pc = "done" /\ idx = 0 /\ log = <<>> /\ result = NoResult
    /\ tmpDir = FALSE /\ tmpFile = Absent /\ infra = FALSE /\ stable = TRUE
    /\ prev = NoPrev /\ raced = FALSE
    /\ OverlapIdle
    /\ ProbeIdle
    /\ UploadIdle
    /\ CleanupIdle

\* The directories on disk that no call in flight holds: the ones dispose
\* left behind.
LeftBehind ==
    dirs \ {calls[s].path[1] : s \in {t \in Slots : calls[t].pc \in {"powershell", "callback"}}}

\* Windows getImage up to its await: the temporary directory is made.
OverlapWindowsBegin(s) ==
    /\ platform = "win32" /\ calls[s].pc \in {"idle", "done"}
    /\ \E d \in TempDirNames \ dirs, suffix \in Suffixes :
        /\ dirs' = dirs \cup {d}
        /\ calls' = [calls EXCEPT ![s] = [pc |-> "powershell",
                                          path |-> OverlapCreateTempFile(d, suffix),
                                          got |-> 0]]
    /\ UNCHANGED <<serviceVars, uploadVars, cleanupVars, files>>

\* The PowerShell script of call s saves the image to the call's path.
OverlapWindowsScript(s) ==
    /\ platform = "win32" /\ calls[s].pc = "powershell"
    /\ files' = (files \ FileAt(calls[s].path))
                    \cup {[path |-> calls[s].path, writer |-> s, content |-> clip["png"]]}
    /\ calls' = [calls EXCEPT ![s].pc = "callback"]
    /\ UNCHANGED <<serviceVars, uploadVars, cleanupVars, dirs>>

\* The callback of call s: the file is read, then dispose removes the file
\* and the directory, as far as unlinkSync and rmdirSync let it.  The file
\* system lets a directory stay behind only while fewer than MaxLeaked have.
OverlapWindowsCallback(s) ==
    /\ platform = "win32" /\ calls[s].pc = "callback"
    /\ \E disposal \in DisposeOutcomes :
        LET here == FileAt(calls[s].path)
            d == dispose(IF here = {} THEN Absent ELSE File(<<>>), TRUE, disposal)
        IN  /\ d.dir => Cardinality(LeftBehind) < MaxLeaked
            /\ calls' = [calls EXCEPT ![s].pc = "done",
                                      ![s].got = IF here = {} THEN 0
                                                 ELSE (CHOOSE f \in here : TRUE).writer]
            /\ files' = IF d.file.exists THEN files ELSE files \ here
            /\ dirs' = IF d.dir THEN dirs ELSE dirs \ {calls[s].path[1]}
    /\ UNCHANGED <<serviceVars, uploadVars, cleanupVars>>

\* macOS getImage up to its first await: the script is started.
OverlapMacBegin(s) ==
    /\ platform = "darwin-multi" /\ calls[s].pc \in {"idle", "done"}
    /\ calls' = [calls EXCEPT ![s] = [pc |-> "osascript", path |-> NoPath, got |-> 0]]
    /\ UNCHANGED <<serviceVars, uploadVars, cleanupVars, dirs, files>>

\* The script of call s draws its random number, writes the image to the file
\* of that name and prints the path.
OverlapMacScript(s) ==
    /\ platform = "darwin-multi" /\ calls[s].pc = "osascript"
    /\ \E n \in RandomNumbers :
        /\ files' = (files \ FileAt(MacTempPath(n)))
                        \cup {[path |-> MacTempPath(n), writer |-> s,
                               content |-> clip["png"]]}
        /\ calls' = [calls EXCEPT ![s].pc = "readFile", ![s].path = MacTempPath(n)]
    /\ UNCHANGED <<serviceVars, uploadVars, cleanupVars, dirs>>

\* Call s reads the file at the printed path; when the file is not there the
\* read throws and the call goes on with its fallback.
OverlapMacReadFile(s) ==
    /\ platform = "darwin-multi" /\ calls[s].pc = "readFile"
    /\ LET here == FileAt(calls[s].path)
       IN  calls' = [calls EXCEPT ![s].pc = IF here = {} THEN "done" ELSE "unlink",
                                  ![s].got = IF here = {} THEN 0
                                             ELSE (CHOOSE f \in here : TRUE).writer]
    /\ UNCHANGED <<serviceVars, uploadVars, cleanupVars, dirs, files>>

\* Call s unlinks the file at the printed path, whoever wrote it last, and
\* returns the bytes it read; when the file is not there any more the unlink
\* throws, the bytes are dropped and the call goes on with its fallback.
OverlapMacUnlink(s) ==
    /\ platform = "darwin-multi" /\ calls[s].pc = "unlink"
    /\ LET here == FileAt(calls[s].path)
       IN  /\ calls' = [calls EXCEPT ![s].pc = "done",
                                     ![s].got = IF here = {} THEN 0 ELSE calls[s].got]
           /\ files' = files \ here
    /\ UNCHANGED <<serviceVars, uploadVars, cleanupVars, dirs>>

OverlapNext ==
    \/ \E s \in Slots : OverlapWindowsBegin(s)
    \/ \E s \in Slots : OverlapWindowsScript(s)
    \/ \E s \in Slots : OverlapWindowsCallback(s)
    \/ \E s \in Slots : OverlapMacBegin(s)
    \/ \E s \in Slots : OverlapMacScript(s)
    \/ \E s \in Slots : OverlapMacReadFile(s)
    \/ \E s \in Slots : OverlapMacUnlink(s)

OverlapSpec == OverlapInit /\ [][OverlapNext]_vars

\* --------------------------------------------------- ConfigurationService

\* defaults.retentionDays
DefaultRetentionDays == 30

\* The largest retention the validation accepts.
MaxRetentionDays == 365

\* A stored setting: a number, kept as twice its value so that halves can be
\* told from whole numbers, or a value of another type.
Number(twice) == [type |-> "number", twice |-> twice]

\* validateRetentionDays: a number above 0 and at most 365 is rounded down,
\* anything else is replaced by the default.
validateRetentionDays(value) ==
    IF value.type = "number" /\ value.twice > 0 /\ value.twice <= 2 * MaxRetentionDays
    THEN value.twice \div 2
    ELSE DefaultRetentionDays

\* getRetentionDays: the validated stored setting.
getRetentionDays == validateRetentionDays(setting)

\* ----------------------------------------------------- WorkspaceFileManager

\* File names are sequences of characters.
DigitChars == <<"0", "1", "2", "3", "4", "5", "6", "7", "8", "9">>

IsDigit(ch) == \E d \in 1..10 : DigitChars[d] = ch

DigitValue(ch) == (CHOOSE d \in 1..10 : DigitChars[d] = ch) - 1

\* The decimal digits of a non-negative integer, as template literals print it.
RECURSIVE ToDigits(_)
ToDigits(n) ==
    IF n < 10 THEN <<DigitChars[n + 1]>>
    ELSE ToDigits(n \div 10) \o <<DigitChars[(n % 10) + 1]>>

\* parseInt(digits, 10) of a non-empty run of digits.
RECURSIVE parseInt(_)
parseInt(digits) ==
    IF digits = <<>> THEN 0
    ELSE parseInt(SubSeq(digits, 1, Len(digits) - 1)) * 10
            + DigitValue(digits[Len(digits)])

ImagePrefix == <<"i", "m", "a", "g", "e", "_">>

FormatChars(format) ==
    CASE format = "png" -> <<"p", "n", "g">>
      [] format = "tiff" -> <<"t", "i", "f", "f">>
      [] format = "jpeg" -> <<"j", "p", "e", "g">>

\* Variant of generateFileName: the timestamp is in seconds.
generateFileName_Seconds(format, t) ==
    ImagePrefix \o ToDigits(t \div 1000) \o <<".">> \o FormatChars(format)

\* generateFileName at clock value t: image_<t>.<format>
generateFileName(format, t) ==
    ImagePrefix \o ToDigits(t) \o <<".">> \o FormatChars(format)

\* The number of digits at the start of a sequence of characters.
RECURSIVE DigitRun(_)
DigitRun(chars) ==
    IF chars # <<>> /\ IsDigit(Head(chars)) THEN 1 + DigitRun(Tail(chars)) ELSE 0

\* fileName.match(/^image_(\d+)\./): the prefix, the longest run of digits,
\* which must not be empty, then a dot.
MatchImageName(fileName) ==
    LET p == Len(ImagePrefix)
        rest == SubSeq(fileName, p + 1, Len(fileName))
        k == DigitRun(rest)
    IN  IF /\ Len(fileName) > p
           /\ SubSeq(fileName, 1, p) = ImagePrefix
           /\ k > 0
           /\ Len(rest) > k
           /\ rest[k + 1] = "."
        THEN [matched |-> TRUE, group |-> SubSeq(rest, 1, k)]
        ELSE [matched |-> FALSE, group |-> <<>>]

\* Variant of isOldImageFile: a timestamp equal to the cutoff counts as old.
isOldImageFile_Inclusive(fileName, cutoffTime) ==
    LET match == MatchImageName(fileName)
    IN  IF ~match.matched THEN FALSE ELSE parseInt(match.group) <= cutoffTime

isOldImageFile(fileName, cutoffTime) ==
    LET match == MatchImageName(fileName)
    IN  IF ~match.matched THEN FALSE ELSE parseInt(match.group) < cutoffTime

\* The milliseconds of a day, scaled down so that clock values stay small.
MsPerDay == 1

\* cutoffTime = Date.now() - retentionDays * 24 * 60 * 60 * 1000
CutoffTime(t, retentionDays) == t - retentionDays * MsPerDay

GitIgnore == <<".", "g", "i", "t", "i", "g", "n", "o", "r", "e">>

\* The filter of cleanupOldImages over one directory entry.
ShouldDelete(entry, cutoffTime) ==
    /\ entry.type = "File"
    /\ entry.name # GitIgnore
    /\ isOldImageFile(entry.name, cutoffTime)

DeleteTargets(listing, cutoffTime) == {e \in listing : ShouldDelete(e, cutoffTime)}

\* The latest clock value observed.
MaxNow == 2000

Nows == {MaxNow - 1, MaxNow}

\* Retention periods whose cutoffs the observed timestamps surround.
SampleDays == {0, 1, DefaultRetentionDays}

\* Timestamps of stored images: a very old one, and for each sampled
\* retention the cutoff itself and its two neighbours.
VeryOld == 1000

Timestamps ==
    {VeryOld} \cup {MaxNow - d * MsPerDay + k : d \in SampleDays, k \in {-1, 0, 1}}

\* Names in the images directory that generateFileName did not produce:
\* image_a.png, image_1000 and ximage_1000.png.
OtherNames ==
    { ImagePrefix \o <<"a", ".">> \o FormatChars("png"),
      ImagePrefix \o ToDigits(VeryOld),
      <<"x">> \o generateFileName("png", VeryOld) }

\* The entries readDirectory can list: [name, FileType] pairs.
DirEntries ==
    {[name |-> generateFileName("png", t), type |-> "File"] : t \in Timestamps}
    \cup {[name |-> generateFileName("jpeg", VeryOld), type |-> ty] :
            ty \in {"File", "Directory", "SymbolicLink|File"}}
    \cup {[name |-> n, type |-> "File"] : n \in OtherNames \cup {GitIgnore}}

\* The largest number of entries of the images directory.
MaxFiles == 2

\* Directory contents: entries with distinct names.
Directories ==
    {d \in SUBSET DirEntries :
        /\ Cardinality(d) <= MaxFiles
        /\ \A e, f \in d : e.name = f.name => e = f}

\* The values the retention setting may hold: 0, 0.5, 1, 1.5, 30, 365, 366,
\* -1, or no number at all.
Settings ==
    {Number(t) : t \in {0, 1, 2, 3, 2 * DefaultRetentionDays, 2 * MaxRetentionDays,
                        2 * MaxRetentionDays + 2, -2}}
    \cup {[type |-> ty, twice |-> 0] : ty \in {"undefined", "string"}}

\* The retentionDays arguments of direct calls.
RetentionInputs == {0, 1, DefaultRetentionDays}

\* Where a file of the workspace is: in the images directory or in the
\* workspace folder itself.
Uri(dir, name) == [dir |-> dir, name |-> name]

\* Files of the workspace folder that carry the names of old images.
WorkspaceFiles ==
    {[dir |-> "workspace", name |-> generateFileName("png", VeryOld), type |-> "File"]}

\* Variant of DeleteUri: the listed name is resolved against the workspace
\* folder.
DeleteUri_InWorkspaceFolder(fileName) == Uri("workspace", fileName)

\* The target of a delete: vscode.Uri.joinPath(imagesDir, fileName).
DeleteUri(fileName) == Uri("images", fileName)

\* The files outside the images directory once the deletes of uris settled.
AfterUriDeletes(outside, uris) == {f \in outside : Uri(f.dir, f.name) \notin uris}

CleanupInit ==
    /\ platform = "linux" /\ clip = EmptyClip
    /\ op = "none" /\ pc = "done" /\ idx = 0 /\ log = <<>> /\ result = NoResult
    /\ tmpDir = FALSE /\ tmpFile = Absent /\ infra = FALSE /\ stable = TRUE
    /\ prev = NoPrev /\ raced = FALSE
    /\ OverlapIdle
    /\ ProbeIdle
    /\ UploadIdle
    /\ now \in Nows
    /\ setting \in Settings
    /\ images \in Directories
    /\ fmPc = "idle"
    /\ caller = "none"
    /\ retention = 0
    /\ before = {}
    /\ fsFailed = FALSE
    /\ fmResult = "none"
    /\ wrote = <<>>
    /\ created = <<>>
    /\ undeleted = {}
    /\ pending = {}
    /\ elsewhere = WorkspaceFiles

\* Variant of CleanupSettles: a failure inside the call is thrown again.
CleanupSettles_Rethrow(ended, failed) ==
    IF ~ended THEN "none" ELSE IF failed THEN "rejected" ELSE "resolved"

\* The promise of cleanupOldImages when the call ends: the function returns
\* normally on every path, the catch included, whether or not something failed.
CleanupSettles(ended, failed) == IF ended THEN "resolved" ELSE "none"

\* The directory once the delete of entry e has settled.
AfterDelete(listing, e, ok) == IF ok THEN listing \ {e} ELSE listing

\* cleanupOldImages up to its first file-system await: return at once when
\* retentionDays is 0, else resolve the images directory, which throws into
\* the catch when no workspace folder is open.
cleanupOldImages(retentionDays, who) ==
    /\ fmPc \in {"idle", "done"}
    /\ retention' = retentionDays
    /\ caller' = who
    /\ before' = images
    /\ wrote' = <<>>
    /\ created' = <<>>
    /\ undeleted' = {}
    /\ pending' = {}
    /\ IF retentionDays = 0
       THEN fmPc' = "done" /\ fsFailed' = FALSE
       ELSE \E workspace \in BOOLEAN :
                /\ fmPc' = IF workspace THEN "readDirectory" ELSE "done"
                /\ fsFailed' = ~workspace
    /\ fmResult' = CleanupSettles(fmPc' = "done", fsFailed')
    /\ UNCHANGED <<serviceVars, uploadVars, overlapVars, elsewhere, now, setting, images>>

\* A direct call of cleanupOldImages.
CleanupCall == \E d \in RetentionInputs : cleanupOldImages(d, "direct")

\* The upload command's cleanup: the retention read from the configuration
\* service is passed to cleanupOldImages.
UploadCleanup == cleanupOldImages(getRetentionDays, "upload")

\* Promise.allSettled over the deletes still unsettled: it resolves in the
\* turn the last of them settles, at once when none was issued.
AllSettled(unsettled) == unsettled = {}

\* readDirectory settles: on failure the catch ends the call; otherwise the
\* delete of every filtered entry is issued and Promise.allSettled is awaited,
\* which ends the call in this very turn when nothing was filtered.
CleanupReadDirectory ==
    /\ fmPc = "readDirectory"
    /\ \E ok \in BOOLEAN :
        /\ fsFailed' = ~ok
        /\ pending' = IF ok THEN DeleteTargets(images, CutoffTime(now, retention))
                      ELSE {}
        /\ fmPc' = IF ok /\ ~AllSettled(pending') THEN "allSettled" ELSE "done"
    /\ fmResult' = CleanupSettles(fmPc' = "done", fsFailed')
    /\ UNCHANGED <<serviceVars, uploadVars, overlapVars, elsewhere, now, setting, images, caller, retention,
                   before, wrote, created, undeleted>>

\* The delete of one entry settles, on its own: it removes the file, or it
\* fails and its catch swallows the failure. When it was the last one
\* unsettled, Promise.allSettled resolves and the call returns in this turn.
CleanupDelete ==
    /\ fmPc = "allSettled"
    /\ \E e \in pending, ok \in BOOLEAN :
        /\ images' = AfterDelete(images, e, ok)
        /\ elsewhere' = AfterUriDeletes(elsewhere,
                                        IF ok THEN {DeleteUri(e.name)} ELSE {})
        /\ fsFailed' = (fsFailed \/ ~ok)
        /\ undeleted' = IF ok THEN undeleted ELSE undeleted \cup {e}
        /\ pending' = pending \ {e}
    /\ fmPc' = IF AllSettled(pending') THEN "done" ELSE "allSettled"
    /\ fmResult' = CleanupSettles(fmPc' = "done", fsFailed')
    /\ UNCHANGED <<serviceVars, uploadVars, overlapVars, now, setting, caller, retention, before,
                   wrote, created>>

CleanupNext ==
    \/ CleanupCall
    \/ UploadCleanup
    \/ CleanupReadDirectory
    \/ CleanupDelete

CleanupSpec == CleanupInit /\ [][CleanupNext]_vars

\* ensureGitignoreExists: how the stat of .gitignore can end, as whether it
\* throws.  It throws when the directory has no entry of that name, and the
\* file system may fail it (no permission, provider error) when the entry is
\* there.
StatThrows(listing) ==
    IF \A e \in listing : e.name # GitIgnore THEN {TRUE} ELSE {TRUE, FALSE}

\* writeFile on the images directory: the entry of that name becomes a file.
WriteEntry(listing, name) ==
    {e \in listing : e.name # name} \cup {[name |-> name, type |-> "File"]}

\* ensureDirectoryExists up to its first file-system await: it resolves the
\* images directory, which throws when no workspace folder is open, then asks
\* for the directory to be created.  who is "create" when createImageFile
\* awaits it and "ensure" when it is called on its own.
ensureDirectoryExists(who) ==
    /\ fmPc \in {"idle", "done"}
    /\ caller' = who
    /\ before' = images
    /\ wrote' = <<>>
    /\ created' = <<>>
    /\ undeleted' = {}
    /\ pending' = {}
    /\ \E workspace \in BOOLEAN :
        /\ fmPc' = IF workspace THEN "createDirectory" ELSE "done"
        /\ fmResult' = IF workspace THEN "none" ELSE "rejected"
        /\ fsFailed' = ~workspace
    /\ UNCHANGED <<serviceVars, uploadVars, overlapVars, elsewhere, now, setting, images, retention>>

\* createImageFile up to its first file-system await.
CreateImageFileBegin == ensureDirectoryExists("create")

\* A call of the public ensureDirectoryExists on its own.
EnsureDirectoryExistsCall == ensureDirectoryExists("ensure")

\* Where the call goes once ensureDirectoryExists has returned: createImageFile
\* writes the image, a call of ensureDirectoryExists itself is over.
AfterEnsure(who) == IF who = "create" THEN "writeFile" ELSE "done"

\* createDirectory settles; its failure is ignored.  ensureGitignoreExists
\* then stats .gitignore.
CreateDirectorySettles ==
    /\ fmPc = "createDirectory"
    /\ \E ok \in BOOLEAN : fsFailed' = (fsFailed \/ ~ok)
    /\ fmPc' = "stat"
    /\ UNCHANGED <<serviceVars, uploadVars, overlapVars, elsewhere, now, setting, images, caller, retention,
                   before, fmResult, wrote, created, undeleted, pending>>

\* The stat settles: .gitignore is written exactly when the stat threw,
\* whatever made it throw.
GitignoreStatSettles ==
    /\ fmPc = "stat"
    /\ \E threw \in StatThrows(images) :
        /\ fmPc' = IF threw THEN "writeGitignore" ELSE AfterEnsure(caller)
        /\ fsFailed' = (fsFailed \/ (threw /\ GitIgnore \in {e.name : e \in images}))
    /\ fmResult' = IF fmPc' = "done" THEN "resolved" ELSE fmResult
    /\ UNCHANGED <<serviceVars, uploadVars, overlapVars, elsewhere, now, setting, images, caller, retention,
                   before, wrote, created, undeleted, pending>>

\* The write of .gitignore settles; its failure rejects the call.
WriteGitignoreSettles ==
    /\ fmPc = "writeGitignore"
    /\ \E ok \in BOOLEAN :
        /\ images' = IF ok THEN WriteEntry(images, GitIgnore) ELSE images
        /\ wrote' = IF ok THEN Append(wrote, GitIgnore) ELSE wrote
        /\ fmPc' = IF ok THEN AfterEnsure(caller) ELSE "done"
        /\ fmResult' = IF ~ok THEN "rejected"
                       ELSE IF AfterEnsure(caller) = "done" THEN "resolved" ELSE "none"
        /\ fsFailed' = (fsFailed \/ ~ok)
    /\ UNCHANGED <<serviceVars, uploadVars, overlapVars, elsewhere, now, setting, caller, retention, before,
                   created, undeleted, pending>>

\* The image is written under the name generateFileName gives it for the
\* call's format at the current clock value; a failed write rejects.
WriteImageSettles ==
    /\ fmPc = "writeFile"
    /\ \E format \in Formats, ok \in BOOLEAN :
        LET fileName == generateFileName(format, now)
        IN  /\ images' = IF ok THEN WriteEntry(images, fileName) ELSE images
            /\ wrote' = IF ok THEN Append(wrote, fileName) ELSE wrote
            /\ created' = IF ok THEN fileName ELSE <<>>
            /\ fmResult' = IF ok THEN "resolved" ELSE "rejected"
            /\ fsFailed' = (fsFailed \/ ~ok)
    /\ fmPc' = "done"
    /\ UNCHANGED <<serviceVars, uploadVars, overlapVars, elsewhere, now, setting, caller, retention, before,
                   undeleted, pending>>

\* Clock values at which files are created: few and many digits.
CreateNows == {0, 9, 10, MaxNow}

\* Directories a sequence of createImageFile and cleanupOldImages calls
\* starts from: with or without .gitignore, with or without a very old image.
StartDirectories ==
    SUBSET {[name |-> GitIgnore, type |-> "File"],
            [name |-> generateFileName("png", VeryOld), type |-> "File"]}

FileManagerInit ==
    /\ platform = "linux" /\ clip = EmptyClip
    /\ op = "none" /\ pc = "done" /\ idx = 0 /\ log = <<>> /\ result = NoResult
    /\ tmpDir = FALSE /\ tmpFile = Absent /\ infra = FALSE /\ stable = TRUE
    /\ prev = NoPrev /\ raced = FALSE
    /\ OverlapIdle
    /\ ProbeIdle
    /\ UploadIdle
    /\ now \in CreateNows
    /\ setting = [type |-> "undefined", twice |-> 0]
    /\ images \in StartDirectories
    /\ fmPc = "idle"
    /\ caller = "none"
    /\ retention = 0
    /\ before = {}
    /\ fsFailed = FALSE
    /\ fmResult = "none"
    /\ wrote = <<>>
    /\ created = <<>>
    /\ undeleted = {}
    /\ pending = {}
    /\ elsewhere = {}

FileManagerNext ==
    \/ CleanupCall
    \/ CleanupReadDirectory
    \/ CleanupDelete
    \/ CreateImageFileBegin
    \/ EnsureDirectoryExistsCall
    \/ CreateDirectorySettles
    \/ GitignoreStatSettles
    \/ WriteGitignoreSettles
    \/ WriteImageSettles

\* createImageFile, ensureDirectoryExists and cleanupOldImages calls of one
\* file manager, one after another in any order.
FileManagerSpec == FileManagerInit /\ [][FileManagerNext]_vars

\* ---------------------------------------------------------- upload command
\* handleUploadCommand (src/src/commands/uploadImage.ts) with the command the
\* factory returns, OptimizedImageUploadCommand.  One invocation, during which
\* other processes may change the clipboard.
\* The getImage call is the call of the clipboard service modelled above,
\* run helper by helper.  The file manager and the editor are collaborators:
\* an action is the settling of the collaborator call the command is
\* suspended at, with an outcome the environment chooses, followed by the
\* command's code up to its next await or its return to handleUploadCommand.
\* A text is a sequence of pieces: a template literal is the concatenation of
\* its pieces, and a file name is the sequence of its characters.

\* vscode.env.remoteName: "" stands for undefined (both are falsy).
RemoteNames == {"", "ssh-remote"}

Destinations == {"editor", "terminal"}

\* The message texts of the errors a collaborator can reject with.
FileSystemCauses ==
    {<<"No workspace folder available. Please open a folder in VS Code.">>,
     <<"EACCES: permission denied">>}

\* The message texts of the errors an insertion can throw: sendText of a
\* terminal, edit of an editor.
InsertCauses == {<<"terminal closed">>, <<"edit failed">>}

\* The values of Date.now() at which an upload names its file.
UploadNows == {10, MaxNow}

\* The variables of the service's current call.
callVars == <<op, pc, idx, log, result, tmpDir, tmpFile, infra, stable, prev, raced, probe>>

\* deps.clipboard.getImage() up to its first await, on the service of
\* platform p: the helper it is suspended at and whether a temporary
\* directory was made.
GetImageFirstAwait(p) ==
    CASE p = "win32" -> [pc |-> "powershell", dir |-> createTempFile.dir]
      [] p = "linux" -> [pc |-> "exec", dir |-> FALSE]
      [] p = "darwin" -> [pc |-> "pbpaste", dir |-> FALSE]
      [] p = "darwin-multi" -> [pc |-> "osascript", dir |-> FALSE]

\* The message of the error exec gave a callback.
ExecErrorMessage(outcome) ==
    IF outcome = "enoent" THEN <<"spawn powershell ENOENT">>
    ELSE <<"Command failed: timeout">>

\* How the getImage call checkClipboard awaited has settled: the value it
\* resolved to, or its rejection with the message of the error of the helper
\* that failed last.
GetImageOutcome ==
    [result |-> result,
     cause |-> IF result = Rejected THEN ExecErrorMessage(log[Len(log)].outcome)
               ELSE <<>>]

\* common/result.ts: success(data) and failure(new ExtensionError(message,
\* code, context)); of the context only originalError is kept.
Success(data) ==
    [success |-> TRUE, data |-> data, message |-> <<>>, originalError |-> <<>>]

Failure(message, originalError) ==
    [success |-> FALSE, data |-> <<>>, message |-> message,
     originalError |-> originalError]

NoRemoteMessage ==
    <<"No remote connection detected. Please connect to a server using Remote-SSH to upload images.">>

NoImageMessage == <<"No image found in clipboard">>

ClipboardAccessMessage == <<"Failed to access clipboard">>

UploadFailedMessage == <<"Failed to upload image">>

NoActiveMessage(dest) ==
    IF dest = "editor" THEN <<"No active editor available">>
    ELSE <<"No active terminal available">>

InsertFailedMessage(dest) == <<"Failed to insert image URL into ", dest>>

\* Variant of validateRemoteConnection: the remote name is not looked at.
validateRemoteConnection_Unchecked(remote) == Success(<<>>)

validateRemoteConnection(remote) ==
    IF remote = "" THEN Failure(NoRemoteMessage, <<>>) ELSE Success(<<>>)

\* checkClipboard over the way getImage settled; on success the image itself
\* is the data, which the command keeps in imageData.
checkClipboard(outcome) ==
    IF outcome.result.kind = "rejected"
    THEN Failure(ClipboardAccessMessage, outcome.cause)
    ELSE IF outcome.result.kind = "null"
    THEN Failure(NoImageMessage, <<>>)
    ELSE Success(<<>>)

\* Variant of getClearClipboardAfterUpload: the setting is not looked at.
getClearClipboardAfterUpload_Always == TRUE

\* configuration.ts getClearClipboardAfterUpload (the default is false).
getClearClipboardAfterUpload == clearSetting

\* vscode.window.show{Warning,Error,Information}Message.
Note(level, text) == [level |-> level, text |-> text]

\* The path of the file createImageFile returns: the images directory of the
\* workspace followed by the generated name.
ImageDirPath == <<".claude/claude-code-chat-images/">>

ImagePath(fileName) == ImageDirPath \o fileName

\* execute() returns res to handleUploadCommand after the notifications in
\* shown; handleUploadCommand reports a failure as an error.
Return(res, shown) ==
    /\ upResult' = res
    /\ notes' = IF res.success THEN shown
                ELSE Append(shown, Note("error", <<"Upload error: ">> \o res.message))
    /\ upPc' = "returned"

\* The end of uploadAndInsert after the clipboard was dealt with.
Finish(path) ==
    Return(Success(path), Append(notes, Note("information", <<"Image uploaded: ">> \o path)))

\* uploadAndInsert after insertImageUrl returned success for path; done lists
\* the operations started so far.
AfterInsert(path, done) ==
    IF getClearClipboardAfterUpload
    THEN /\ steps' = Append(done, "clear")
         /\ upPc' = "clear"
         /\ UNCHANGED <<notes, upResult>>
    ELSE /\ steps' = done
         /\ Finish(path)

\* A stored image file.
Stored(path, content) == [path |-> path, content |-> content]

\* workspace.fs.writeFile: the file at path holds content afterwards.
WriteStored(listing, path, content) ==
    {f \in listing : f.path # path} \cup {Stored(path, content)}

\* Variant of ImageToStore: the clipboard is read again when the file is
\* written.
ImageToStore_Reread(data, c) ==
    IF c[data.format] # <<>> THEN Image(c[data.format], data.format) ELSE data

\* The image uploadAndInsert hands to createImageFile: the data of the
\* clipboardResult that execute() passed on, whatever the clipboard c holds.
ImageToStore(data, c) == data

\* The shouldCleanup of the ManagedImageFile that createImageFile returns:
\* the constructor's default, since no second argument is passed.
ShouldCleanup == FALSE

\* ManagedImageFile.dispose(): the file is deleted only with shouldCleanup.
DisposeImageFile(listing, path) ==
    IF ShouldCleanup THEN {f \in listing : f.path # path} ELSE listing

\* uploadAndInsert after insertImageUrl returned a failure: the image file at
\* path is disposed of and the failure returned.
InsertFailed(insertResult, done, listing, path) ==
    /\ steps' = Append(done, "dispose")
    /\ stored' = DisposeImageFile(listing, path)
    /\ Return(insertResult, notes)

\* The upload command before it is invoked, over the clipboard service of
\* any platform; the clipboard is empty or holds one representation of an
\* image, and other processes change it at any time.
UploadInit ==
    /\ platform \in Services /\ clip \in Copies
    /\ op = "none" /\ pc = "done" /\ idx = 0 /\ log = <<>> /\ result = NoResult
    /\ tmpDir = FALSE /\ tmpFile = Absent /\ infra = FALSE /\ stable = TRUE
    /\ prev = NoPrev /\ raced = FALSE
    /\ OverlapIdle
    /\ ProbeIdle
    /\ CleanupIdle
    /\ remoteName \in RemoteNames
    /\ clearSetting \in BOOLEAN
    /\ destination = "none"
    /\ upPc = "idle"
    /\ steps = <<>>
    /\ notes = <<>>
    /\ upResult = NoUpload
    /\ imageData = NoResult
    /\ imageFile = <<>>
    /\ inserted = FALSE
    /\ stored = {}

\* handleUploadCommand up to the first await of execute(): the remote
\* connection is validated and getImage is called.
HandleUploadCommand ==
    /\ upPc = "idle"
    /\ \E d \in Destinations : destination' = d
    /\ imageData' = NoResult
    /\ imageFile' = <<>>
    /\ inserted' = FALSE
    /\ LET remoteCheck == validateRemoteConnection(remoteName)
       IN  IF ~remoteCheck.success
           THEN /\ steps' = <<>>
                /\ Return(remoteCheck, <<>>)
                /\ UNCHANGED callVars
           ELSE /\ steps' = <<"getImage">>
                /\ notes' = <<>>
                /\ upResult' = NoUpload
                /\ upPc' = "getImage"
                /\ BeginCall("getImage", GetImageFirstAwait(platform).pc,
                             GetImageFirstAwait(platform).dir)
    /\ UNCHANGED <<platform, clip, overlapVars, cleanupVars, remoteName, clearSetting,
                   stored>>

\* The getImage call of the service has settled and checkClipboard resumes:
\* a failure of checkClipboard is shown as a warning and returned; otherwise
\* uploadAndInsert reads the retention setting and calls cleanupOldImages.
GetImageSettles ==
    /\ upPc = "getImage"
    /\ Settled("getImage")
    /\ LET outcome == GetImageOutcome
           clipboardResult == checkClipboard(outcome)
        IN  IF ~clipboardResult.success
            THEN /\ Return(clipboardResult,
                           <<Note("warning", clipboardResult.message)>>)
                 /\ UNCHANGED <<steps, imageData>>
            ELSE /\ imageData' = outcome.result
                 /\ steps' = Append(steps, "cleanupOldImages")
                 /\ upPc' = "cleanupOldImages"
                 /\ UNCHANGED <<notes, upResult>>
    /\ UNCHANGED <<serviceVars, overlapVars, cleanupVars, remoteName, clearSetting,
                   destination, imageFile, inserted, stored>>

\* cleanupOldImages resolves (it catches every error): createImageFile is
\* called with the bytes and format of imageData.
UploadCleanupSettles ==
    /\ upPc = "cleanupOldImages"
    /\ steps' = Append(steps, "createImageFile")
    /\ upPc' = "createImageFile"
    /\ UNCHANGED <<serviceVars, overlapVars, cleanupVars, remoteName, clearSetting,
                   destination, notes, upResult, imageData, imageFile, inserted,
                   stored>>

\* createImageFile settles.  A rejection is caught by uploadAndInsert.  With
\* the file written, insertImageUrl runs: without an active editor or terminal
\* it fails at once; the terminal's sendText is synchronous, and what it
\* throws (thrown, <<>> when nothing) becomes the originalError of the
\* failure; the editor's edit is awaited.
CreateImageFileSettles ==
    /\ upPc = "createImageFile"
    /\ \/ \E cause \in FileSystemCauses :
            /\ Return(Failure(UploadFailedMessage, cause), notes)
            /\ UNCHANGED <<steps, imageFile, inserted, stored>>
       \/ \E t \in UploadNows, active \in BOOLEAN, thrown \in {<<>>} \cup InsertCauses :
            LET image == ImageToStore(imageData, clip)
                path == ImagePath(generateFileName(image.format, t))
                written == WriteStored(stored, path, image.buffer)
            IN  /\ imageFile' = path
                /\ inserted' = (active /\ destination = "terminal" /\ thrown = <<>>)
                /\ IF ~active
                   THEN InsertFailed(Failure(NoActiveMessage(destination), <<>>),
                                     steps, written, path)
                   ELSE IF destination = "editor"
                   THEN /\ steps' = Append(steps, "insert")
                        /\ upPc' = "edit"
                        /\ stored' = written
                        /\ UNCHANGED <<notes, upResult>>
                   ELSE IF thrown # <<>>
                   THEN InsertFailed(Failure(InsertFailedMessage(destination), thrown),
                                     Append(steps, "insert"), written, path)
                   ELSE /\ AfterInsert(path, Append(steps, "insert"))
                        /\ stored' = written
    /\ UNCHANGED <<serviceVars, overlapVars, cleanupVars, remoteName, clearSetting,
                   destination, imageData>>

\* The editor's edit settles: a rejection makes insertImageUrl fail with the
\* rejection as originalError; the boolean it resolves with (whether the edit
\* was applied) is not looked at, and insertImageUrl returns success.
EditSettles ==
    /\ upPc = "edit"
    /\ \E thrown \in {<<>>} \cup InsertCauses, applied \in BOOLEAN :
        IF thrown # <<>>
        THEN /\ InsertFailed(Failure(InsertFailedMessage(destination), thrown),
                             steps, stored, imageFile)
             /\ inserted' = FALSE
        ELSE /\ AfterInsert(imageFile, steps)
             /\ inserted' = applied
             /\ UNCHANGED stored
    /\ UNCHANGED <<serviceVars, overlapVars, cleanupVars, remoteName, clearSetting,
                   destination, imageData, imageFile>>

\* clear() resolves (on every platform it absorbs its failures), with the
\* clipboard emptied or not: the success is reported.
ClearSettles ==
    /\ upPc = "clear"
    /\ \E c \in {clip, EmptyClip} : clip' = c
    /\ Finish(imageFile)
    /\ UNCHANGED <<platform, op, pc, idx, log, result, tmpDir, tmpFile, infra, stable,
                   prev, raced, probe, overlapVars, cleanupVars, remoteName,
                   clearSetting, destination, steps, imageData, imageFile, inserted,
                   stored>>

UploadNext ==
    \/ ClipboardChange
    \/ HandleUploadCommand
    \/ WindowsGetImage
    \/ LinuxGetImage
    \/ MacOSGetImage
    \/ MacGetImageAppleScript
    \/ MacGetImageReadFile
    \/ MacGetImageUnlink
    \/ MacGetImagePbpaste
    \/ GetImageSettles
    \/ UploadCleanupSettles
    \/ CreateImageFileSettles
    \/ EditSettles
    \/ ClearSettles

\* One upload invocation of an extension instance.
UploadSpec == UploadInit /\ [][UploadNext]_vars

\* ------------------------------------------------- overlapping uploads
\* Upload invocations that overlap (each command handler is an async function
\* and nothing serialises them), followed through createImageFile on a shared
\* file manager.  The clipboard holds an image and the editor accepts the
\* insertion, so every invocation succeeds.  calls holds each invocation's
\* position and file name, files the stored images with the invocation that
\* wrote them; the clock advances between any two steps or not at all.

fileManagerRest ==
    <<setting, images, fmPc, caller, retention, before, fsFailed, fmResult, wrote,
      created, undeleted, pending, elsewhere>>

UploadOverlapInit ==
    /\ platform = "linux" /\ clip = EmptyClip
    /\ op = "none" /\ pc = "done" /\ idx = 0 /\ log = <<>> /\ result = NoResult
    /\ tmpDir = FALSE /\ tmpFile = Absent /\ infra = FALSE /\ stable = TRUE
    /\ prev = NoPrev /\ raced = FALSE
    /\ OverlapIdle
    /\ ProbeIdle
    /\ UploadIdle
    /\ now = MaxNow - 1
    /\ setting = [type |-> "undefined", twice |-> 0]
    /\ images = {}
    /\ fmPc = "idle"
    /\ caller = "none"
    /\ retention = 0
    /\ before = {}
    /\ fsFailed = FALSE
    /\ fmResult = "none"
    /\ wrote = <<>>
    /\ created = <<>>
    /\ undeleted = {}
    /\ pending = {}
    /\ elsewhere = {}

\* Date.now() moves on.
Tick ==
    /\ now < MaxNow
    /\ now' = now + 1
    /\ UNCHANGED <<serviceVars, uploadVars, overlapVars, fileManagerRest>>

\* Invocation s up to createImageFile's await of ensureDirectoryExists.
UploadOverlapBegin(s) ==
    /\ calls[s].pc = "idle"
    /\ calls' = [calls EXCEPT ![s].pc = "ensureDirectoryExists"]
    /\ UNCHANGED <<serviceVars, uploadVars, cleanupVars, dirs, files>>

\* ensureDirectoryExists settles for invocation s: the file name is generated
\* from the clock and the image's format, and writeFile is started.
UploadOverlapGenerate(s) ==
    /\ calls[s].pc = "ensureDirectoryExists"
    /\ \E format \in Formats :
        calls' = [calls EXCEPT ![s].pc = "writeFile",
                               ![s].path = generateFileName(format, now)]
    /\ UNCHANGED <<serviceVars, uploadVars, cleanupVars, dirs, files>>

\* writeFile settles for invocation s: the file of that name holds the image of
\* s, and the invocation goes on to return the path.
UploadOverlapWrite(s) ==
    /\ calls[s].pc = "writeFile"
    /\ files' = (files \ FileAt(calls[s].path))
                    \cup {[path |-> calls[s].path, writer |-> s, content |-> <<s>>]}
    /\ calls' = [calls EXCEPT ![s].pc = "done", ![s].got = s]
    /\ UNCHANGED <<serviceVars, uploadVars, cleanupVars, dirs>>

UploadOverlapNext ==
    \/ Tick
    \/ \E s \in Slots : UploadOverlapBegin(s)
    \/ \E s \in Slots : UploadOverlapGenerate(s)
    \/ \E s \in Slots : UploadOverlapWrite(s)

UploadOverlapSpec == UploadOverlapInit /\ [][UploadOverlapNext]_vars

\* ------------------------------------------------------------------ claims

\* The helper invocation at position i of the log produced no image bytes:
\* it ended in an error, or printed / read nothing.
YieldedNothing(e) == e.outcome # "ok" \/ e.out = <<>>

\* Every helper the call ran failed for an infrastructure reason.
AllHelpersFailed ==
    /\ log # <<>>
    /\ \A i \in DOMAIN log : log[i].outcome \in {"enoent", "timeout", "eio"}

\* C1 as stated: on every platform, a getImage() whose helpers all failed for
\* an infrastructure reason (tool missing, spawn failure, timeout) rejects and
\* never resolves to null.
C1_InfraFailureRejects ==
    (Settled("getImage") /\ AllHelpersFailed) => result.kind = "rejected"

\* C1 amended: an infrastructure failure during getImage() makes the call
\* reject on Windows only.  On Linux and macOS the failure of a helper is
\* caught: the call never rejects, it resolves to an image when another
\* strategy produced bytes and to null when every helper failed.
C1_InfraFailurePerPlatform ==
    (Settled("getImage") /\ infra) =>
        /\ platform = "win32" => result.kind = "rejected"
        /\ platform \in {"linux", "darwin", "darwin-multi"} =>
            /\ result.kind \in {"image", "null"}
            /\ AllHelpersFailed => result.kind = "null"

\* Linux, neither tool installed: the call resolved to null.
C1_Witness ==
    /\ Settled("getImage") /\ platform = "linux"
    /\ Len(log) = 2
    /\ log[1].outcome = "enoent" /\ log[2].outcome = "enoent"
    /\ result.kind = "null"

\* C2: on every platform, getImage() on a clipboard that holds no image, with
\* no helper missing, unspawnable, timed out or unreadable and no concurrent
\* clipboard change, resolves to null and does not reject.
C2_NoImageResolvesNull ==
    (Settled("getImage") /\ stable /\ ~infra /\ ~ClipHasImage(clip)) =>
        result.kind = "null"

\* macOS, empty clipboard: the script returned the ERROR: marker, the three
\* pbpaste calls ran and printed nothing, the call resolved to null.
C2_Witness ==
    /\ Settled("getImage") /\ platform = "darwin-multi"
    /\ stable /\ ~infra /\ ~ClipHasImage(clip)
    /\ Len(log) = 4
    /\ log[1].outcome = "ok" /\ log[1].marker = "ERROR:"
    /\ result.kind = "null"

\* C3 as stated: whenever getImage() resolves to an image, its buffer is not
\* empty and its format is png, tiff or jpeg (on Windows too when the script
\* reports success and the temp file exists but is empty).
C3_FoundHasBytes ==
    (Settled("getImage") /\ result.kind = "image") =>
        /\ Len(result.buffer) > 0
        /\ result.format \in {"png", "tiff", "jpeg"}

\* C4 as stated: after a Windows getImage() call has settled, however it
\* settled, the call's temporary file and directory do not exist.
C4_WindowsTempRemoved ==
    (platform = "win32" /\ Settled("getImage")) =>
        ~tmpFile.exists /\ ~tmpDir

\* C4: after a Windows getImage() call has settled, however it settled,
\* dispose() has run: the call's temporary file and directory do not exist
\* when unlinkSync and rmdirSync worked; the file is gone and the directory
\* stays when rmdirSync threw; and a file that remains is the one the script
\* left, in its directory, after unlinkSync threw.
C4_WindowsTempBestEffort ==
    (platform = "win32" /\ Settled("getImage")) =>
        /\ log[1].disposal = "ok" => ~tmpFile.exists /\ ~tmpDir
        /\ log[1].disposal = "rmdirThrows" => ~tmpFile.exists /\ tmpDir
        /\ tmpFile.exists =>
            /\ log[1].disposal = "unlinkThrows"
            /\ tmpFile = log[1].wrote
            /\ tmpDir

\* The script was killed by the timeout after it had written the file; the
\* call rejected, the removals worked and the file and directory are gone.
C4_Witness ==
    /\ platform = "win32" /\ Settled("getImage")
    /\ log[1].outcome = "timeout" /\ log[1].wrote.exists
    /\ log[1].disposal = "ok"
    /\ result.kind = "rejected"
    /\ ~tmpFile.exists /\ ~tmpDir

\* C5 as stated: after a macOS getImage() call has settled, no temp file
\* written by the AppleScript strategy remains on disk.
C5_MacTempRemoved ==
    (platform = "darwin-multi" /\ Settled("getImage")) => ~tmpFile.exists

\* The primary strategy of this macOS call threw or returned an empty buffer.
MacPrimaryFailed ==
    /\ log # <<>>
    /\ \/ log[1].outcome # "ok"
       \/ log[1].marker = "ERROR:"
       \/ Len(log) >= 2 /\ log[2].tool = "readFile" /\ YieldedNothing(log[2])
       \/ Len(log) >= 3 /\ log[3].tool = "unlink" /\ log[3].outcome # "ok"

\* Position in the log of the first pbpaste invocation of a macOS call whose
\* primary strategy is over.
MacFirstPbpaste ==
    IF Len(log) >= 3 /\ log[3].tool = "unlink" THEN 4
    ELSE IF Len(log) >= 2 /\ log[2].tool = "readFile" THEN 3 ELSE 2

\* C6: in a macOS getImage() call the AppleScript strategy runs first; pbpaste
\* runs only after it threw or returned nothing, for public.png, public.tiff,
\* public.jpeg in that order, each only after the previous one yielded
\* nothing; the first non-empty output is returned unconverted, tagged png,
\* tiff, jpeg respectively; null is returned only after all three yielded
\* nothing.
C6_MacStrategyOrder ==
    (platform = "darwin-multi" /\ op = "getImage") =>
        /\ log # <<>> => log[1].tool = "osascript"
        /\ \A i \in DOMAIN log :
            /\ log[i].tool = "osascript" => i = 1
            /\ log[i].tool = "readFile" => i = 2
            /\ log[i].tool = "unlink" => i = 3 /\ log[2].outcome = "ok"
            /\ log[i].tool = "pbpaste" =>
                /\ MacPrimaryFailed
                /\ i - MacFirstPbpaste \in 0..2
                /\ log[i].arg = <<"public.png", "public.tiff", "public.jpeg">>
                                    [i - MacFirstPbpaste + 1]
                /\ \A j \in MacFirstPbpaste..(i - 1) : YieldedNothing(log[j])
        /\ pc = "pbpaste" => MacPrimaryFailed
        /\ (pc = "done" /\ result.kind = "image") =>
            LET e == log[Len(log)]
            IN  /\ e.tool \in {"unlink", "pbpaste"}
                /\ e.tool = "unlink" =>
                    /\ e.outcome = "ok"
                    /\ ~YieldedNothing(log[2])
                    /\ result.buffer = log[2].out
                    /\ result.format = "png"
                /\ e.tool = "pbpaste" =>
                    /\ ~YieldedNothing(e)
                    /\ result.buffer = e.out
                    /\ result.format =
                        CASE e.arg = "public.png" -> "png"
                          [] e.arg = "public.tiff" -> "tiff"
                          [] e.arg = "public.jpeg" -> "jpeg"
        /\ pc = "done" =>
            /\ result.kind \in {"image", "null"}
            /\ result.kind = "null" =>
                /\ MacPrimaryFailed
                /\ Len(log) = MacFirstPbpaste + 2
                /\ \A j \in MacFirstPbpaste..Len(log) :
                    log[j].tool = "pbpaste" /\ YieldedNothing(log[j])

\* The primary strategy threw, pbpaste printed nothing for public.png and
\* public.tiff, and the JPEG bytes came back tagged jpeg.
C6_Witness ==
    /\ platform = "darwin-multi" /\ Settled("getImage")
    /\ Len(log) = 4 /\ log[4].arg = "public.jpeg"
    /\ result.kind = "image" /\ result.format = "jpeg"
    /\ result.buffer = log[4].out

\* The clipboard exposes a TIFF representation and nothing else.
TiffOnly(c) == c["png"] = <<>> /\ c["tiff"] # <<>> /\ c["jpeg"] = <<>>

\* C7 as stated: macOS, clipboard exposing only TIFF, no helper missing /
\* timed out / unreadable and no concurrent clipboard change: getImage() resolves to a png
\* image (the converted file) when the script's sips conversion succeeded and
\* to the clipboard's TIFF bytes tagged tiff (from pbpaste) when it failed;
\* never to null or to jpeg.
C7_MacTiffOnly ==
    (platform = "darwin-multi" /\ Settled("getImage") /\ stable /\ ~infra
        /\ TiffOnly(clip)) =>
        /\ log[1].sips \in {"ok", "failed"}
        /\ log[1].sips = "ok" =>
            result = Image(log[1].wrote.content, "png") /\ Len(log) = 3
        /\ log[1].sips = "failed" =>
            /\ result = Image(clip["tiff"], "tiff")
            /\ log[Len(log)].tool = "pbpaste"
        /\ result.kind = "image" /\ result.format # "jpeg"

\* C8: Linux getImage() runs xclip and then wl-paste; wl-paste runs only after
\* xclip failed or printed nothing; the call returns the raw output of the
\* first tool that exited without error with non-empty output, tagged png,
\* and null when both failed or printed nothing.
C8_LinuxFallback ==
    (platform = "linux" /\ op = "getImage") =>
        /\ Len(log) <= 2
        /\ Len(log) >= 1 => log[1].tool = "xclip"
        /\ Len(log) = 2 => log[2].tool = "wl-paste" /\ YieldedNothing(log[1])
        /\ (pc = "done" /\ result.kind = "image") =>
            /\ ~YieldedNothing(log[Len(log)])
            /\ result = Image(log[Len(log)].out, "png")
        /\ pc = "done" =>
            /\ result.kind \in {"image", "null"}
            /\ result.kind = "null" =>
                Len(log) = 2 /\ YieldedNothing(log[1]) /\ YieldedNothing(log[2])
            /\ (\E i \in DOMAIN log : ~YieldedNothing(log[i])) =>
                result.kind = "image"

\* xclip is not installed, wl-paste printed the image: its bytes are returned.
C8_Witness ==
    /\ platform = "linux" /\ Settled("getImage")
    /\ Len(log) = 2
    /\ log[1].tool = "xclip" /\ log[1].outcome = "enoent"
    /\ log[2].tool = "wl-paste" /\ log[2].outcome = "ok" /\ log[2].out # <<>>
    /\ result = Image(log[2].out, "png")

\* C9: Windows, the script printed the success marker but the temp file does
\* not exist on disk: getImage() resolves to null and does not reject.
C9_WindowsSuccessNoFile ==
    (platform = "win32" /\ Settled("getImage")
        /\ log[1].outcome = "ok" /\ log[1].marker = "success"
        /\ ~log[1].wrote.exists) =>
        result.kind = "null"

\* The script printed 'success', left no file, and the call resolved to null.
C9_Witness ==
    /\ platform = "win32" /\ Settled("getImage")
    /\ log[1].outcome = "ok" /\ log[1].marker = "success"
    /\ ~log[1].wrote.exists
    /\ result.kind = "null"

\* C10 as stated: on Windows a timeout or process error of the external script
\* makes getImage() and hasImage() reject, while clear() and warmUp() resolve;
\* and a failure raised inside the script while it saves the image is not
\* reported by getImage() as null.
C10_WindowsErrorsSurfaced ==
    (platform = "win32" /\ pc = "done" /\ log # <<>>) =>
        /\ (op \in {"getImage", "hasImage"} /\ log[1].outcome # "ok") =>
            result.kind = "rejected"
        /\ op \in {"clear", "warmUp"} => result.kind = "void"
        /\ (op = "getImage" /\ stable /\ ClipHasImage(clip)
                /\ log[1].outcome = "ok" /\ log[1].marker = "error") =>
            result.kind # "null"

\* C11 as stated: on every platform, a hasImage() call made while the
\* clipboard holds no image resolves to false and does not reject.
C11_NoImageHasImageFalse ==
    (Settled("hasImage") /\ stable /\ ~ClipHasImage(clip))
        => result = Bool(FALSE)

\* C11 amended: a hasImage() call made while the clipboard holds no image
\* resolves to false on Linux and macOS whatever its helpers did; on Windows
\* it resolves to false when PowerShell ran and exited with status zero, and
\* it rejects when exec reported an error (PowerShell missing, timed out or
\* exited non-zero).
C11_NoImageHasImagePerPlatform ==
    (Settled("hasImage") /\ stable /\ ~ClipHasImage(clip)) =>
        /\ platform # "win32" => result = Bool(FALSE)
        /\ platform = "win32" =>
            /\ Len(log) = 1
            /\ log[1].outcome = "ok" => result = Bool(FALSE)
            /\ log[1].outcome # "ok" => result = Rejected

\* A Windows probe of an empty clipboard whose PowerShell exited non-zero:
\* the call rejected.
C11_Witness ==
    /\ platform = "win32" /\ Settled("hasImage") /\ stable /\ ~ClipHasImage(clip)
    /\ log[1].outcome = "exit1"
    /\ result = Rejected

\* C12: clear() and warmUp() resolve whatever their helper processes did
\* (non-zero exit, tool missing, timeout) and never reject; on Linux every
\* tool run before the last one of the call failed, so the call stopped at the
\* first tool that succeeded, and it resolved even when both tools failed.
C12_BestEffortResolves ==
    /\ op \in {"clear", "warmUp"} => pc # "pending"
    /\ (Settled("clear") \/ Settled("warmUp")) =>
        /\ result = Void
        /\ log # <<>>
        /\ platform = "linux" =>
            /\ Len(log) <= 2
            /\ \A i \in 1..(Len(log) - 1) : log[i].outcome # "ok"
            /\ log[Len(log)].outcome # "ok" => Len(log) = 2

\* A Linux clear() whose two tools were missing and timed out.
C12_Witness ==
    /\ platform = "linux" /\ Settled("clear") /\ Len(log) = 2
    /\ log[1].outcome = "enoent" /\ log[2].outcome = "timeout"
    /\ result = Void

\* A step of the service, as opposed to a step of another process.
ServiceStep == <<op, pc, idx, log, result>>' # <<op, pc, idx, log, result>>

\* C13: a step of getImage(), hasImage() or warmUp() leaves the clipboard
\* content unchanged on every platform, only a step of clear() changes it; and
\* a call starts from the same fresh call state whatever the calls before it
\* did, so nothing of an earlier call reaches a later one.
C13_OnlyClearChangesClipboard ==
    [][/\ (ServiceStep /\ clip' # clip) => (op = "clear" /\ op' = "clear")
       /\ (pc = "done" /\ pc' # "done") =>
            /\ idx' = 1 /\ log' = <<>> /\ result' = NoResult
            /\ tmpFile' = Absent /\ infra' = FALSE]_vars

\* A Linux warmUp() that ran its first tool with success on a clipboard that
\* other processes left alone and that still holds an image.
C13_Witness ==
    /\ platform = "linux" /\ Settled("warmUp") /\ stable /\ ClipHasImage(clip)
    /\ Len(log) = 1 /\ log[1].outcome = "ok"

\* C14 as stated: when a hasImage() call follows another hasImage() call
\* immediately and no other process changed the clipboard since the first
\* call began, the two calls yield the same boolean, on every platform.
C14_HasImageRepeatable ==
    (/\ Settled("hasImage") /\ prev.op = "hasImage"
     /\ prev.stable /\ stable)
        => /\ result = prev.result
           /\ result \in {Bool(TRUE), Bool(FALSE)}

\* C14 amended: two immediately successive hasImage() calls on an unchanged
\* clipboard yield the same boolean when no helper of either call failed
\* (missing, timed out or, on Windows, exited non-zero); a helper failure in
\* one of the calls can change the answer or make a Windows call reject.
C14_HasImageRepeatableHelpersWork ==
    (/\ Settled("hasImage") /\ prev.op = "hasImage"
     /\ prev.stable /\ stable
     /\ ~prev.infra /\ ~infra)
        => /\ result = prev.result
           /\ result \in {Bool(TRUE), Bool(FALSE)}

\* Two successive macOS probes of an unchanged clipboard that holds an image,
\* the second of which had to use its fallback listing.
C14_Witness ==
    /\ platform = "darwin-multi" /\ Settled("hasImage") /\ prev.op = "hasImage"
    /\ prev.stable /\ stable /\ ~prev.infra /\ ~infra
    /\ Len(log) = 2
    /\ prev.result = Bool(TRUE) /\ result = Bool(TRUE)

\* The number of helpers of the current call that are running.
InFlight == IF pc \in {"done", "pending"} THEN 0 ELSE 1

\* C15: within one getImage() call the strategies run one after another: the
\* helpers the call has started are those that have settled plus at most one
\* that is running, the helper at position idx of a command list runs only
\* when all helpers before it have settled, no helper is run twice with the
\* same request, and the call runs no more helpers than it has strategies.
C15_StrategiesSequential ==
    op = "getImage" =>
        /\ InFlight <= 1
        /\ \A i, j \in 1..Len(log) :
            i # j => <<log[i].tool, log[i].arg>> # <<log[j].tool, log[j].arg>>
        /\ platform \in {"win32", "darwin"} => Len(log) + InFlight = 1
        /\ platform = "linux" =>
            /\ Len(log) + InFlight = idx
            /\ idx <= Len(LinuxGetImageCommands)
        /\ platform = "darwin-multi" =>
            /\ pc = "osascript" => log = <<>>
            /\ pc = "readFile" => Len(log) = 1 /\ log[1].tool = "osascript"
            /\ pc = "unlink" => Len(log) = 2 /\ log[2].tool = "readFile"
            /\ pc \in {"pbpaste", "done"} /\ result.kind # "image" =>
                Len(log) + InFlight = (MacFirstPbpaste - 1) + idx
            /\ idx <= Len(MacFormats)

\* A Linux getImage() that tried xclip, then wl-paste, once each, and found
\* nothing.
C15_Witness ==
    /\ platform = "linux" /\ Settled("getImage") /\ result = Null
    /\ Len(log) = 2
    /\ log[1].tool = "xclip" /\ log[2].tool = "wl-paste"

\* C16: a getImage() call whose helpers were all present and in time resolves
\* to an image or to null, whatever other processes did to the clipboard
\* before or during the call: a clipboard change alone never makes it reject.
C16_ClipboardRaceNeverRejects ==
    (Settled("getImage") /\ ~infra) => result.kind \in {"image", "null"}

\* A Windows getImage() during which another process changed the clipboard:
\* the script met an error after its probe and the call resolved to null.
C16_Witness ==
    /\ platform = "win32" /\ Settled("getImage") /\ raced /\ ~infra
    /\ log[1].marker = "error"
    /\ result = Null

\* C18: when every helper process exits or is killed at its timeout, every
\* getImage(), hasImage(), clear() and warmUp() call that has been started
\* eventually settles, by resolving or rejecting.
C18_EveryCallSettles == (pc # "done") ~> (pc = "done")

\* A macOS getImage() that settled after running every one of its strategies:
\* the script, the read of its file, and pbpaste for each of the three formats.
C18_Witness ==
    /\ platform = "darwin-multi" /\ Settled("getImage")
    /\ Len(log) = 5
    /\ log[5].tool = "pbpaste"

\* Call s has chosen its temporary path and has not yet finished with it.
HoldsPath(s) == calls[s].pc \in {"powershell", "callback", "readFile", "unlink"}

\* C17: two getImage() calls that overlap never use the same temporary path,
\* on Windows and on macOS, and a call that read a temporary file read the
\* one its own helper wrote.
C17_TempPathsDistinct ==
    /\ \A s, t \in Slots :
        (s # t /\ HoldsPath(s) /\ HoldsPath(t)) => calls[s].path # calls[t].path
    /\ \A s \in Slots : calls[s].got \in {0, s}

\* The name has the form image_<digits>.<ext>, with k digits.
HasImageForm(name, k) ==
    /\ k >= 1 /\ Len(name) > Len(ImagePrefix) + k
    /\ \A i \in 1..Len(ImagePrefix) : name[i] = ImagePrefix[i]
    /\ \A i \in 1..k : IsDigit(name[Len(ImagePrefix) + i])
    /\ name[Len(ImagePrefix) + k + 1] = "."

\* The entry is a regular file named image_<t>.<ext> for a timestamp t
\* strictly older than the given time.
OldImage(entry, time) ==
    /\ entry.type = "File"
    /\ \E k \in 1..Len(entry.name) :
        /\ HasImageForm(entry.name, k)
        /\ \E t \in 0..(time - 1) :
            SubSeq(entry.name, Len(ImagePrefix) + 1, Len(ImagePrefix) + k) = ToDigits(t)

\* C19 as stated: a settled cleanupOldImages(retentionDays) call with
\* retentionDays > 0 has deleted exactly the regular files named
\* image_<digits>.<ext> whose timestamp is strictly older than now minus
\* retentionDays days, and cleanupOldImages(0) has deleted nothing.
C19_CleanupDeletesExactly ==
    (fmPc = "done" /\ caller = "direct") =>
        /\ retention > 0 =>
            images = {e \in before : ~OldImage(e, now - retention * MsPerDay)}
        /\ retention = 0 => images = before

\* C19 amended: a settled cleanupOldImages(retentionDays) call with
\* retentionDays > 0 has deleted only regular files named
\* image_<digits>.<ext> whose timestamp is strictly older than now minus
\* retentionDays days, whatever failed; it has deleted all of them when the
\* workspace folder was open and readDirectory and every delete succeeded,
\* while a failure is swallowed and leaves the stale files it concerns in
\* place; and cleanupOldImages(0) has deleted nothing.
C19_CleanupDeletesOld ==
    (fmPc = "done" /\ caller = "direct") =>
        /\ images \subseteq before
        /\ \A e \in before \ images : OldImage(e, now - retention * MsPerDay)
        /\ (retention > 0 /\ ~fsFailed) =>
            \A e \in images : ~OldImage(e, now - retention * MsPerDay)
        /\ retention = 0 => images = before

\* cleanupOldImages(30) over image_1000.png and image_<now>.png: the first is
\* gone, the second is kept.
C19_Witness ==
    /\ fmPc = "done" /\ caller = "direct" /\ retention = 30 /\ ~fsFailed
    /\ before = {[name |-> generateFileName("png", VeryOld), type |-> "File"],
                 [name |-> generateFileName("png", now), type |-> "File"]}
    /\ images = {[name |-> generateFileName("png", now), type |-> "File"]}

\* C20: with the retention setting stored as 0, the cleanup an upload runs
\* deletes no stored image: the images directory after the upload's
\* cleanupOldImages call is the one before it.
C20_ZeroRetentionKeepsImages ==
    (fmPc = "done" /\ caller = "upload" /\ setting = Number(0))
        => images = before

\* C23 as stated: a Linux hasImage() call on an unchanged clipboard, whose
\* tools were present and in time, resolves to true exactly when the
\* clipboard offers an image as png, tiff or jpeg.
C23_LinuxDetectsSupportedFormats ==
    (platform = "linux" /\ Settled("hasImage") /\ stable /\ ~infra)
        => (result = Bool(TRUE) <=> ClipHasImage(clip))

\* C23, amended: Linux hasImage() asks xclip, then wl-paste, for the list of
\* types; the second tool is asked only when the first failed; the first
\* listing obtained decides, and the answer is true exactly when that listing
\* includes image/png or image/jpeg (for an unchanged clipboard: exactly when
\* it holds a png or jpeg representation; tiff alone is not detected); false
\* is returned when both tools failed.
C23_LinuxDetectsPngOrJpeg ==
    (platform = "linux" /\ Settled("hasImage")) =>
        /\ Len(log) \in {1, 2}
        /\ log[1].tool = "xclip"
        /\ Len(log) = 2 => (log[1].outcome # "ok" /\ log[2].tool = "wl-paste")
        /\ LET last == log[Len(log)]
           IN  /\ last.outcome # "ok" => (Len(log) = 2 /\ result = Bool(FALSE))
               /\ last.outcome = "ok" =>
                    /\ result = Bool(Includes(last.out, "image/png")
                                     \/ Includes(last.out, "image/jpeg"))
                    /\ stable =>
                        result = Bool(clip["png"] # <<>> \/ clip["jpeg"] # <<>>)

\* A Linux probe of a clipboard that holds only a TIFF image: xclip failed,
\* wl-paste listed image/tiff, and the answer is false.
C23_Witness ==
    /\ platform = "linux" /\ Settled("hasImage") /\ stable /\ TiffOnly(clip)
    /\ Len(log) = 2 /\ log[2].outcome = "ok"
    /\ Includes(log[2].out, "image/tiff")
    /\ result = Bool(FALSE)

\* C24: macOS hasImage() first runs the class-check script and, when the
\* scripting host succeeded, returns its answer, true only for the exact
\* marker 'true', without any further query; only when the scripting host
\* failed does it run the "clipboard info" query and answer by substring
\* match; when that fails too it resolves to false; it never rejects.
C24_MacHasImageOrder ==
    (platform = "darwin-multi" /\ Settled("hasImage")) =>
        /\ result \in {Bool(TRUE), Bool(FALSE)}
        /\ Len(log) \in {1, 2}
        /\ log[1].tool = "osascript" /\ log[1].arg = "classes"
        /\ log[1].outcome = "ok" =>
            (Len(log) = 1 /\ result = Bool(log[1].marker = "true"))
        /\ log[1].outcome # "ok" =>
            /\ Len(log) = 2
            /\ log[2].arg = "clipboard info"
            /\ log[2].outcome # "ok" => result = Bool(FALSE)
            /\ log[2].outcome = "ok" =>
                result = Bool(\E t \in {"image", "PNGf", "TIFF", "JPEG"} :
                                Includes(log[2].out, t))

\* A macOS probe whose script failed and whose fallback listing named a JPEG
\* picture.
C24_Witness ==
    /\ platform = "darwin-multi" /\ Settled("hasImage")
    /\ Len(log) = 2 /\ log[1].outcome = "exit1" /\ log[2].outcome = "ok"
    /\ Includes(log[2].out, "JPEG")
    /\ result = Bool(TRUE)

\* C27: on macOS a settled getImage() has resolved to an image or to null and
\* a settled hasImage() to true or false, never rejected, whatever failed; a
\* getImage() whose every step yielded nothing resolved to null, and a
\* hasImage() whose two queries both failed resolved to false.
C27_MacNeverRejects ==
    (platform = "darwin-multi" /\ op \in {"getImage", "hasImage"}) =>
        /\ pc # "pending"
        /\ Settled("getImage") =>
            /\ result.kind \in {"image", "null"}
            /\ (\A i \in 1..Len(log) : YieldedNothing(log[i])) => result = Null
        /\ Settled("hasImage") =>
            /\ result.kind \in {"true", "false"}
            /\ (\A i \in 1..Len(log) : log[i].outcome # "ok") => result = Bool(FALSE)

\* A macOS getImage() whose scripting host was missing and whose three
\* pbpaste runs timed out.
C27_Witness ==
    /\ platform = "darwin-multi" /\ Settled("getImage") /\ result = Null
    /\ Len(log) = 4
    /\ log[1].outcome = "enoent"
    /\ \A i \in 2..4 : log[i].tool = "pbpaste" /\ log[i].outcome = "timeout"

\* C28: in the macOS primary strategy a script output that begins with
\* 'ERROR:' is a failure of the strategy even when the scripting host exited
\* with status zero: no file is read for it and the next step is the pbpaste
\* fallback; and an image that does not come from pbpaste comes from the
\* primary strategy, whose output was a path and whose read of that file
\* succeeded, and holds the bytes that were read.
C28_ErrorMarkerIsFailure ==
    (platform = "darwin-multi" /\ op = "getImage" /\ Len(log) >= 1) =>
        /\ (log[1].outcome = "ok" /\ log[1].marker = "ERROR:") =>
            /\ pc \in {"pbpaste", "done"}
            /\ Len(log) >= 2 => log[2].tool = "pbpaste"
            /\ Settled("getImage") /\ result.kind = "image" =>
                log[Len(log)].tool = "pbpaste"
        /\ (Settled("getImage") /\ result.kind = "image"
                /\ log[Len(log)].tool # "pbpaste") =>
            /\ Len(log) = 3
            /\ log[1].outcome = "ok" /\ log[1].marker = "path"
            /\ log[2].tool = "readFile" /\ log[2].outcome = "ok"
            /\ log[3].tool = "unlink"
            /\ result.buffer = log[2].out /\ result.format = "png"

\* A macOS getImage() whose script exited with status zero and printed the
\* ERROR: marker, and that got the image from pbpaste instead.
C28_Witness ==
    /\ platform = "darwin-multi" /\ Settled("getImage") /\ result.kind = "image"
    /\ log[1].outcome = "ok" /\ log[1].marker = "ERROR:"
    /\ log[2].tool = "pbpaste"

\* C29: a cleanupOldImages() call that has ended has resolved, whatever
\* failed inside it (no workspace folder, unreadable directory, failed
\* deletes); and when deletes failed, every other stale file of the run was
\* deleted all the same: of the stale files readDirectory listed, only those
\* whose own delete failed remain.
C29_CleanupNeverRejects ==
    /\ caller \in {"direct", "upload"} => fmResult # "rejected"
    /\ (fmPc = "done" /\ caller \in {"direct", "upload"}) =>
        /\ fmResult = "resolved"
        /\ undeleted \subseteq images
        /\ undeleted # {} =>
            images = before \ (DeleteTargets(before, CutoffTime(now, retention))
                                    \ undeleted)

\* A cleanup run with two stale files in which one delete failed: that file
\* stays, the other is gone, and the call resolved.
C29_Witness ==
    /\ fmPc = "done" /\ caller = "direct" /\ fmResult = "resolved"
    /\ Cardinality(before) = 2
    /\ Cardinality(undeleted) = 1
    /\ images = undeleted

\* The names of the entries of a directory.
Names(listing) == {e.name : e \in listing}

\* C26 as stated: after every createImageFile() that resolved, the images directory
\* contains a .gitignore file; a createImageFile() call that found a
\* .gitignore did not write it; and a cleanupOldImages() call leaves the
\* .gitignore it found in place.
C26_GitignoreKept ==
    /\ (fmPc = "done" /\ caller = "create" /\ fmResult = "resolved") =>
        [name |-> GitIgnore, type |-> "File"] \in images
    /\ (caller = "create" /\ GitIgnore \in Names(before)) =>
        \A i \in 1..Len(wrote) : wrote[i] # GitIgnore
    /\ (caller = "direct" /\ GitIgnore \in Names(before)) =>
        GitIgnore \in Names(images)

\* C25: for every timestamp t and every format, the name generateFileName
\* gives at time t has the form image_<t>.<format>, the retention check's
\* pattern matches it and parses t back out of it, and isOldImageFile judges
\* it old exactly when t is before the cutoff; in particular this holds for
\* the file a createImageFile() call has just stored.
C25_NameRoundTrip ==
    /\ \A t \in CreateNows \cup Timestamps, f \in Formats :
        LET name == generateFileName(f, t)
            match == MatchImageName(name)
        IN  /\ HasImageForm(name, Len(ToDigits(t)))
            /\ match.matched
            /\ match.group = ToDigits(t)
            /\ parseInt(match.group) = t
            /\ \A cutoff \in {t - 1, t, t + 1} :
                isOldImageFile(name, cutoff) <=> t < cutoff
    /\ created # <<>> =>
        /\ MatchImageName(created).matched
        /\ parseInt(MatchImageName(created).group) = now
        /\ [name |-> created, type |-> "File"] \in images

\* A createImageFile() that stored a file at clock value 10: its name carries
\* the two digits of the timestamp.
C25_Witness ==
    /\ fmPc = "done" /\ caller = "create" /\ fmResult = "resolved"
    /\ now = 10
    /\ created = generateFileName("jpeg", 10)
    /\ MatchImageName(created).group = <<"1", "0">>

\* text contains part as a run of consecutive pieces.
Contains(text, part) ==
    \E i \in 0..(Len(text) - Len(part)) : SubSeq(text, i + 1, i + Len(part)) = part

\* A notification of the given level was shown whose text contains part.
Shown(level, part) ==
    \E n \in 1..Len(notes) : notes[n].level = level /\ Contains(notes[n].text, part)

\* C21: the notification of an upload invocation matches its outcome: without
\* an image in the clipboard a warning is shown; when the clipboard access
\* failed with an error, an error-level notification is shown that includes
\* the text of that error; on success an informational notification with the
\* path of the image file is shown.
C21_NotificationMatchesOutcome ==
    upPc = "returned" =>
        /\ upResult.message = NoImageMessage => Shown("warning", <<>>)
        /\ upResult.message = ClipboardAccessMessage
               => Shown("error", upResult.originalError)
        /\ upResult.success => Shown("information", upResult.data)

\* C22: without a remote connection execute() returns the failure with the
\* 'No remote connection detected' message, and no clipboard operation, no
\* cleanup, no file creation and no insertion is started and no file stored.
C22_NoRemoteNoEffects ==
    remoteName = "" =>
        /\ steps = <<>>
        /\ stored = {}
        /\ upPc \in {"idle", "returned"}
        /\ upPc = "returned" => upResult = Failure(NoRemoteMessage, <<>>)

C22_Witness ==
    /\ remoteName = ""
    /\ upPc = "returned"
    /\ upResult = Failure(NoRemoteMessage, <<>>)
    /\ steps = <<>>

\* The order of the operations of an upload.
UploadOrder == <<"getImage", "cleanupOldImages", "createImageFile", "insert", "clear">>

IsPrefix(s, t) == Len(s) <= Len(t) /\ SubSeq(t, 1, Len(s)) = s

NotDispose(step) == step # "dispose"

Started(step) == \E i \in 1..Len(steps) : steps[i] = step

\* C30 as stated: the operations of an upload invocation are started in the
\* order getImage, cleanupOldImages, createImageFile, insertion, clear, each
\* after the one before it settled.  clear is started only with
\* clearClipboardAfterUpload enabled and only after the path was inserted
\* successfully, and never in an invocation that returns a failure.
C30_UploadStepOrder ==
    /\ IsPrefix(SelectSeq(steps, NotDispose), UploadOrder)
    /\ Started("clear") =>
        /\ clearSetting
        /\ Started("insert")
        /\ ~Started("dispose")
        /\ inserted
        /\ upPc \in {"clear", "returned"}
    /\ (upPc = "returned" /\ ~upResult.success) => ~Started("clear")

\* Every run of the Windows script that found an image saved it: it did not
\* print 'error', and after 'success' the file was there.
SaveWorked ==
    \A i \in 1..Len(log) :
        /\ log[i].marker # "error"
        /\ log[i].marker = "success" => log[i].wrote.exists

\* C34: probe and fetch agree: when hasImage resolved to true, every helper
\* of both calls was present, in time and working, and the clipboard did not
\* change from the start of the probe to the end of the fetch, the getImage
\* call that follows resolves to an image and not to null.
C34_ProbeFetchAgree ==
    (/\ Settled("getImage")
     /\ probe.result = Bool(TRUE)
     /\ probe.stable /\ stable
     /\ ~probe.infra /\ ~infra
     /\ SaveWorked)
        => result.kind = "image"

\* The file createImageFile returned, as stored.
StoredImageFile == {f \in stored : f.path = imageFile}

\* The number of getImage calls the invocation has made.
GetImageCalls == Cardinality({i \in 1..Len(steps) : steps[i] = "getImage"})

\* C31 as stated: an upload invocation calls getImage exactly once, and the
\* file it writes holds the bytes, under a name with the format, of the image
\* that call returned, whatever the clipboard holds by then.
C31_StoresWhatWasRead ==
    /\ upPc = "returned" => GetImageCalls = 1
    /\ imageFile # <<>> =>
        /\ imageData = result /\ imageData.kind = "image"
        /\ StoredImageFile = {Stored(imageFile, imageData.buffer)}
        /\ \E t \in UploadNows :
               imageFile = ImagePath(generateFileName(imageData.format, t))

\* C31 amended: an upload invocation that passes the remote-connection check
\* calls getImage exactly once, and one that fails the check does not call
\* it; the file an invocation writes holds the bytes, under a name with the
\* format, of the image that single call returned, whatever the clipboard
\* held or holds after the helper of the call read it.
C31_StoresWhatGetImageReturned ==
    /\ remoteName = "" => GetImageCalls = 0
    /\ (remoteName # "" /\ upPc # "idle") =>
        /\ GetImageCalls = 1
        /\ op = "getImage"
    /\ imageFile # <<>> =>
        /\ imageData = result /\ imageData.kind = "image"
        /\ StoredImageFile = {Stored(imageFile, imageData.buffer)}
        /\ \E t \in UploadNows :
               imageFile = ImagePath(generateFileName(imageData.format, t))

\* A Linux upload that succeeded: the clipboard was changed by another
\* process after the getImage call had settled, and the stored file holds
\* the bytes of the call, not those of the clipboard.
C31_Witness ==
    /\ platform = "linux"
    /\ upPc = "returned"
    /\ upResult.success
    /\ ~stable /\ ~raced
    /\ clip[imageData.format] # imageData.buffer
    /\ StoredImageFile = {Stored(imageFile, imageData.buffer)}

\* C32: when the insertion fails after the image file was written, the upload
\* returns a failure and the file is no longer in the images directory.
C32_FailedInsertRemovesFile ==
    (upPc = "returned" /\ Started("dispose"))
        => ~upResult.success /\ StoredImageFile = {}

\* The warnings and errors shown.
FailureNotes == {n \in 1..Len(notes) : notes[n].level \in {"warning", "error"}}

\* C33: an upload invocation that fails shows exactly one failure
\* notification, a warning or an error and never both.
C33_OneFailureNotification ==
    (upPc = "returned" /\ ~upResult.success) => Cardinality(FailureNotes) = 1

\* C35: two upload invocations that both succeed return distinct paths, and
\* the file at each path holds the image of the invocation that returned it.
C35_DistinctStoredImages ==
    \A s, t \in Slots :
        (s # t /\ calls[s].pc = "done" /\ calls[t].pc = "done")
            => /\ calls[s].path # calls[t].path
               /\ \E f \in files : f.path = calls[s].path /\ f.writer = s

\* The name starts with image_, one or more digits, and a dot.
StartsWithImageDigits(fileName) ==
    LET p == Len(ImagePrefix)
    IN  /\ Len(fileName) > p
        /\ SubSeq(fileName, 1, p) = ImagePrefix
        /\ \E k \in 1..(Len(fileName) - p - 1) :
            /\ \A i \in 1..k : IsDigit(fileName[p + i])
            /\ fileName[p + k + 1] = "."

\* C36: a cleanupOldImages call, whatever its retentionDays, removes from the
\* images directory only regular files other than .gitignore whose names start
\* with image_<digits>. (the dot included), adds nothing, and leaves every file outside the images
\* directory in place.
C36_CleanupFrame ==
    caller \in {"direct", "upload"} =>
        /\ images \subseteq before
        /\ \A e \in before \ images :
            /\ e.type = "File"
            /\ e.name # GitIgnore
            /\ StartsWithImageDigits(e.name)
        /\ elsewhere = WorkspaceFiles

C36_Witness ==
    /\ fmPc = "done"
    /\ caller \in {"direct", "upload"}
    /\ \E e \in before \ images : \E f \in elsewhere : f.name = e.name
    /\ \E e \in images :
        e.type # "File" /\ isOldImageFile(e.name, CutoffTime(now, retention))

====
